---- MODULE Spec2Model ----
(***************************************************************************)
(* Task store of pkg/models/tasks.go: Task.Create, Task.Update, the bucket *)
(* assignment (setTaskBucket), the recurrence engine (updateDone and the   *)
(* three setTaskDates* policies), the reminder replacement and the         *)
(* position rebalancing.                                                   *)
(*                                                                         *)
(* Time.  A time.Time is a natural number; 0 is the zero time              *)
(* (time.Time{}, IsZero) and day 1 is 2024-01-01 in the configured time    *)
(* zone.  One unit is one day; RepeatAfter and RelativePeriod are counted  *)
(* in the same unit.                                                       *)
(***************************************************************************)
EXTENDS Integers, Sequences, FiniteSets, TLC

VARIABLES
    tasks,      \* table "tasks": task id -> stored row
    reminders,  \* table "task_reminders": task id -> set of stored rows
    nextID,     \* the autoincrement counter of the tasks table
    now,        \* the wall clock read by time.Now()
    last,       \* the last handler call: operation, request and outcome
    call        \* the last direct call of updateDone: arguments and result

vars == <<tasks, reminders, nextID, now, last, call>>

-----------------------------------------------------------------------------
(* Bounds *)

MaxInterval == 2      \* largest RepeatAfter drawn
MaxDate == 3          \* largest date drawn for a direct updateDone call
MaxNow == 4           \* largest clock value drawn for a direct updateDone call
MaxReminders == 2     \* longest reminder list drawn
MaxMonthDay == 430    \* last day drawn for the monthly policy (2025-03-05)
MaxTasks == 1         \* tasks created while completions are followed
MaxDatedTasks == 1    \* tasks created while dates are followed
MaxClock == 2         \* last value of the clock of the store
MaxDay == 4           \* last day a stored date may reach
BucketLimit == 1      \* the limit of the limited buckets
MaxBoardTasks == BucketLimit + 1   \* tasks created on the board
MaxStoreInterval == 1 \* largest RepeatAfter a request to the store carries
MaxPositionTasks == 2 \* tasks created while positions are followed
MaxReminderTasks == 1 \* tasks created while reminders are followed
MaxTerms == 2         \* longest filter expression drawn
MaxRelatedTerms == 2  \* longest filter expression over the collections
MaxFavoriteTasks == 2 \* tasks of the store the favorites are asked of
MaxProjectTasks == 2  \* tasks created while projects are changed
MaxIndex == 3         \* highest index given while projects are changed
MaxSessions == 2      \* requests that run createTask at the same time
MaxIndexTasks == 2    \* tasks created by interleaved requests
MaxRebalanceTasks == 3 \* tasks created while a rebalance runs in steps
MaxWindowWrites == 1  \* writes of other requests while one rebalance runs

-----------------------------------------------------------------------------
(* Repeat modes *)

TaskRepeatModeDefault == 0
TaskRepeatModeMonth == 1
TaskRepeatModeFromCurrentDate == 2

RepeatModes ==
    {TaskRepeatModeDefault, TaskRepeatModeMonth, TaskRepeatModeFromCurrentDate}

(* Reminder anchors *)

ReminderRelationNone == ""
ReminderRelationDueDate == "due_date"
ReminderRelationStartDate == "start_date"
ReminderRelationEndDate == "end_date"

-----------------------------------------------------------------------------
(* Calendar: what time.Date does with an overflowing month or day *)

Years == 2023..2027

IsLeap(y) == (y % 4 = 0 /\ y % 100 # 0) \/ y % 400 = 0

DaysIn(y, m) ==
    IF m = 2 THEN (IF IsLeap(y) THEN 29 ELSE 28)
    ELSE IF m \in {4, 6, 9, 11} THEN 30 ELSE 31

RECURSIVE DaysBeforeYear(_)
DaysBeforeYear(y) ==
    IF y = 2024 THEN 0
    ELSE IF y > 2024
    THEN DaysBeforeYear(y - 1) + (IF IsLeap(y - 1) THEN 366 ELSE 365)
    ELSE DaysBeforeYear(y + 1) - (IF IsLeap(y) THEN 366 ELSE 365)

RECURSIVE DaysBeforeMonth(_, _)
DaysBeforeMonth(y, m) ==
    IF m <= 1 THEN 0 ELSE DaysBeforeMonth(y, m - 1) + DaysIn(y, m - 1)

\* time.Date(y, m, d, ...): a month of 13 is January of the next year, and a
\* day beyond the month's length runs on into the following month.
Date(y, m, d) ==
    LET yy == IF m > 12 THEN y + 1 ELSE y
        mm == IF m > 12 THEN m - 12 ELSE m
    IN  DaysBeforeYear(yy) + DaysBeforeMonth(yy, mm) + d

YearOf(t) ==
    CHOOSE y \in Years : Date(y, 1, 1) <= t /\ t < Date(y + 1, 1, 1)

MonthOf(t) ==
    LET y == YearOf(t)
    IN  CHOOSE m \in 1..12 : Date(y, m, 1) <= t /\ t < Date(y, m + 1, 1)

DayOf(t) == t - Date(YearOf(t), MonthOf(t), 1) + 1

addOneMonthToDate(d) == Date(YearOf(d), MonthOf(d) + 1, DayOf(d))

-----------------------------------------------------------------------------
(* Recurrence engine *)

\* for !d.After(now) { d = d.Add(repeatDuration) }
RECURSIVE AddUntilAfter(_, _, _)
AddUntilAfter(d, repeatDuration, t) ==
    IF d > t THEN d ELSE AddUntilAfter(d + repeatDuration, repeatDuration, t)

\* d = old.Add(repeatDuration); then the loop above
NextAfterNoFirstAdd(d, repeatDuration, t) ==
    AddUntilAfter(d, repeatDuration, t)

NextAfter(d, repeatDuration, t) ==
    AddUntilAfter(d + repeatDuration, repeatDuration, t)

\* sort.Slice(reminders, by Reminder.Unix() ascending), as an insertion sort
RECURSIVE SortReminders(_)
SortReminders(rs) ==
    IF Len(rs) <= 1 THEN rs
    ELSE LET sorted == SortReminders(Tail(rs))
             h == Head(rs)
             k == Cardinality({i \in 1..Len(sorted) : sorted[i].Reminder < h.Reminder})
         IN  SubSeq(sorted, 1, k) \o <<h>> \o SubSeq(sorted, k + 1, Len(sorted))

setTaskDatesDefault(oldTask, newTask, t) ==
    IF oldTask.RepeatAfter = 0 THEN newTask
    ELSE
    LET repeatDuration == oldTask.RepeatAfter
    IN  [newTask EXCEPT
            !.DueDate = IF oldTask.DueDate # 0
                        THEN NextAfter(oldTask.DueDate, repeatDuration, t)
                        ELSE @,
            !.Reminders = [i \in 1..Len(oldTask.Reminders) |->
                [oldTask.Reminders[i] EXCEPT
                    !.Reminder = NextAfter(@, repeatDuration, t)]],
            !.StartDate = IF oldTask.StartDate # 0
                          THEN NextAfter(oldTask.StartDate, repeatDuration, t)
                          ELSE @,
            !.EndDate = IF oldTask.EndDate # 0
                        THEN NextAfter(oldTask.EndDate, repeatDuration, t)
                        ELSE @,
            !.Done = FALSE]

setTaskDatesMonthRepeat(oldTask, newTask) ==
    LET both == oldTask.StartDate # 0 /\ oldTask.EndDate # 0
        diff == oldTask.EndDate - oldTask.StartDate
    IN  [newTask EXCEPT
            !.DueDate = IF oldTask.DueDate # 0
                        THEN addOneMonthToDate(oldTask.DueDate)
                        ELSE @,
            !.Reminders = [i \in 1..Len(oldTask.Reminders) |->
                [oldTask.Reminders[i] EXCEPT
                    !.Reminder = addOneMonthToDate(@)]],
            !.StartDate = IF oldTask.StartDate # 0
                          THEN addOneMonthToDate(oldTask.StartDate)
                          ELSE @,
            !.EndDate = IF both
                        THEN addOneMonthToDate(oldTask.StartDate) + diff
                        ELSE IF oldTask.EndDate # 0
                             THEN addOneMonthToDate(oldTask.EndDate)
                             ELSE @,
            !.Done = FALSE]

\* A variant that forgets the interval
NowAddNoInterval(t, repeatDuration, diff) == t + diff

\* now.Add(repeatDuration + diff)
NowAdd(t, repeatDuration, diff) == t + repeatDuration + diff

setTaskDatesFromCurrentDateRepeat(oldTask, newTask, t) ==
    IF oldTask.RepeatAfter = 0 THEN newTask
    ELSE
    LET repeatDuration == oldTask.RepeatAfter
        sorted == SortReminders(oldTask.Reminders)
        first == sorted[1].Reminder
        due == IF oldTask.DueDate # 0 THEN NowAdd(t, repeatDuration, 0)
               ELSE newTask.DueDate
        both == oldTask.StartDate # 0 /\ oldTask.EndDate # 0
    IN  [newTask EXCEPT
            !.DueDate = due,
            !.Reminders = [i \in 1..Len(sorted) |->
                [sorted[i] EXCEPT
                    !.Reminder = NowAdd(t, repeatDuration, @ - first)]],
            !.StartDate =
                IF oldTask.DueDate = 0
                THEN (IF oldTask.StartDate # 0
                      THEN NowAdd(t, repeatDuration, 0) ELSE @)
                ELSE (IF oldTask.StartDate # 0
                      THEN due - (oldTask.DueDate - oldTask.StartDate)
                      ELSE @),
            !.EndDate =
                IF oldTask.DueDate = 0
                THEN (IF both
                      THEN NowAdd(t, repeatDuration,
                                  oldTask.EndDate - oldTask.StartDate)
                      ELSE IF oldTask.EndDate # 0
                           THEN NowAdd(t, repeatDuration, 0)
                           ELSE @)
                ELSE (IF oldTask.EndDate # 0
                      THEN due - (oldTask.DueDate - oldTask.EndDate)
                      ELSE @),
            !.Done = FALSE]

\* A variant in which no policy runs
RepeatDatesNone(oldTask, newTask, t) == newTask

\* The policy that the switch on oldTask.RepeatMode selects.
RepeatDates(oldTask, newTask, t) ==
    IF oldTask.RepeatMode = TaskRepeatModeMonth
    THEN setTaskDatesMonthRepeat(oldTask, newTask)
    ELSE IF oldTask.RepeatMode = TaskRepeatModeFromCurrentDate
    THEN setTaskDatesFromCurrentDateRepeat(oldTask, newTask, t)
    ELSE IF oldTask.RepeatMode = TaskRepeatModeDefault
    THEN setTaskDatesDefault(oldTask, newTask, t)
    ELSE newTask

\* A variant that leaves the timestamp alone when a task is unmarked
updateDoneKeepsDoneAt(oldTask, newTask, t) ==
    IF ~oldTask.Done /\ newTask.Done
    THEN [RepeatDates(oldTask, newTask, t) EXCEPT !.DoneAt = t]
    ELSE newTask

updateDone(oldTask, newTask, t) ==
    IF ~oldTask.Done /\ newTask.Done
    THEN [RepeatDates(oldTask, newTask, t) EXCEPT !.DoneAt = t]
    ELSE IF oldTask.Done /\ ~newTask.Done
    THEN [newTask EXCEPT !.DoneAt = 0]
    ELSE newTask

-----------------------------------------------------------------------------
(* Projects and buckets: the board the handlers run against *)

Projects == {1, 2}

\* Project 1: a default bucket, a bucket with a limit, and a done bucket that
\* has a limit too.  Project 2: one bucket, both its default and its done
\* bucket.
Buckets ==
    <<[ID |-> 1, ProjectID |-> 1, Limit |-> 0, IsDoneBucket |-> FALSE,
       Position |-> 1],
      [ID |-> 2, ProjectID |-> 1, Limit |-> BucketLimit,
       IsDoneBucket |-> FALSE, Position |-> 2],
      [ID |-> 3, ProjectID |-> 1, Limit |-> BucketLimit,
       IsDoneBucket |-> TRUE, Position |-> 3],
      [ID |-> 4, ProjectID |-> 2, Limit |-> 0, IsDoneBucket |-> TRUE,
       Position |-> 1]>>

BucketIDs == DOMAIN Buckets

\* The zero Bucket{} and the nil *Bucket are both the bucket with ID 0.
NoBucket ==
    [ID |-> 0, ProjectID |-> 0, Limit |-> 0, IsDoneBucket |-> FALSE,
     Position |-> 0]

GetProjectSimpleByID(projectID) == projectID \in Projects

getBucketByID(id) == IF id \in BucketIDs THEN Buckets[id] ELSE NoBucket

getDefaultBucket(projectID) ==
    LET own == {b \in BucketIDs : Buckets[b].ProjectID = projectID}
    IN  IF own = {} THEN NoBucket
        ELSE Buckets[CHOOSE b \in own :
                \A c \in own : Buckets[b].Position <= Buckets[c].Position]

getDoneBucketForProject(projectID) ==
    LET done == {b \in BucketIDs :
                    Buckets[b].ProjectID = projectID /\ Buckets[b].IsDoneBucket}
    IN  IF done = {} THEN NoBucket ELSE Buckets[CHOOSE b \in done : TRUE]

-----------------------------------------------------------------------------
(* Errors *)

NoError == "nil"
ErrProjectDoesNotExist == "ErrProjectDoesNotExist"
ErrBucketDoesNotExist == "ErrBucketDoesNotExist"
ErrBucketDoesNotBelongToProject == "ErrBucketDoesNotBelongToProject"
ErrBucketLimitExceeded == "ErrBucketLimitExceeded"
ErrReminderRelativeToMissing == "ErrReminderRelativeToMissing"

-----------------------------------------------------------------------------
(* Bucket assignment *)

checkBucketAndTaskBelongToSameProject(fullTask, bucket) ==
    IF fullTask.ProjectID # bucket.ProjectID
    THEN ErrBucketDoesNotBelongToProject
    ELSE NoError

TaskCount(bucketID) ==
    Cardinality({i \in DOMAIN tasks : tasks[i].BucketID = bucketID})

checkBucketLimitNever(bucket) == NoError

checkBucketLimit(bucket) ==
    IF bucket.Limit > 0 /\ TaskCount(bucket.ID) >= bucket.Limit
    THEN ErrBucketLimitExceeded
    ELSE NoError

\* The task row of a Create: there is no original task.
NoTask ==
    [ProjectID |-> 0, BucketID |-> 0, Done |-> FALSE, DoneAt |-> 0,
     DueDate |-> 0, StartDate |-> 0, EndDate |-> 0, RepeatAfter |-> 0,
     RepeatMode |-> TaskRepeatModeDefault, Index |-> 0,
     Position |-> <<0, 0>>, KanbanPosition |-> <<0, 0>>, Reminders |-> <<>>]

\* setTaskBucket(s, task, originalTask, doCheckBucketLimit); hasOriginal is
\* originalTask != nil.  The result is the error, the task as the function
\* leaves it and the bucket it returns.
setTaskBucket(task, hasOriginal, originalTask, doCheckBucketLimit) ==
    LET doneBucket == getDoneBucketForProject(task.ProjectID)
        t1 == IF task.Done /\ hasOriginal /\ ~originalTask.Done
                 /\ doneBucket.ID # 0
              THEN [task EXCEPT !.BucketID = doneBucket.ID]
              ELSE task
        t2 == IF t1.BucketID = 0 /\ hasOriginal /\ originalTask.BucketID # 0
              THEN [t1 EXCEPT !.BucketID = originalTask.BucketID]
              ELSE t1
        useDefault ==
            \/ t2.BucketID = 0
            \/ (hasOriginal /\ t2.ProjectID # 0
                /\ originalTask.ProjectID # t2.ProjectID)
        bucket == IF useDefault THEN getDefaultBucket(t2.ProjectID)
                  ELSE getBucketByID(t2.BucketID)
        t3 == IF useDefault THEN [t2 EXCEPT !.BucketID = bucket.ID] ELSE t2
        t4 == IF bucket.IsDoneBucket /\ hasOriginal /\ ~originalTask.Done
              THEN [t3 EXCEPT !.Done = TRUE]
              ELSE t3
        err == IF ~useDefault /\ bucket.ID = 0 THEN ErrBucketDoesNotExist
               ELSE IF checkBucketAndTaskBelongToSameProject(t3, bucket)
                       # NoError
               THEN ErrBucketDoesNotBelongToProject
               ELSE IF doCheckBucketLimit THEN checkBucketLimit(bucket)
               ELSE NoError
    IN  [err |-> err, task |-> t4, bucket |-> bucket]

-----------------------------------------------------------------------------
(* Positions.  A float64 position is a pair <<hi, lo>> that stands for      *)
(* hi * 2^16 / 60 + lo / 20, ordered lexicographically: hi carries the      *)
(* default and the rebalanced positions, lo the small positions a client    *)
(* sends.                                                                   *)

ZeroPosition == <<0, 0>>

PosLess(p, q) == p[1] < q[1] \/ (p[1] = q[1] /\ p[2] < q[2])

\* position < 0.1
BelowThreshold(p) == p[1] = 0 /\ p[2] < 2

\* A variant that gives every task the default position of the first one
calculateDefaultPositionOfFirst(entityID, position) ==
    IF position = ZeroPosition THEN <<60, 0>> ELSE position

\* float64(entityID) * math.Pow(2, 16) when position == 0
calculateDefaultPosition(entityID, position) ==
    IF position = ZeroPosition THEN <<60 * entityID, 0>> ELSE position

getNextTaskIndex(projectID) ==
    LET own == {i \in DOMAIN tasks : tasks[i].ProjectID = projectID}
        latest == IF own = {} THEN 0
                  ELSE CHOOSE x \in {tasks[i].Index : i \in own} :
                         \A i \in own : tasks[i].Index <= x
    IN  latest + 1

\* A variant that spreads the positions from the top downwards
RebalancedPositionDownwards(count, i) ==
    <<(60 * 65536 * (count - i)) \div count, 0>>

\* maxPosition / float64(len(allTasks)) * float64(i + 1), maxPosition = 2^32
RebalancedPosition(count, i) == <<(60 * 65536 * (i + 1)) \div count, 0>>

\* The orders in which "ORDER BY <position> asc" can return the rows: rows
\* with equal positions come in any order.
Orderings(tbl, ids, column) ==
    {o \in [1..Cardinality(ids) -> ids] :
        /\ \A a, b \in DOMAIN o : a # b => o[a] # o[b]
        /\ \A a, b \in DOMAIN o :
            a < b => ~PosLess(tbl[o[b]][column], tbl[o[a]][column])}

\* recalculateTaskPositions(s, projectID) on the table tbl, rows read in order o
recalculateTaskPositions(tbl, o) ==
    [i \in DOMAIN tbl |->
        IF \E k \in DOMAIN o : o[k] = i
        THEN [tbl[i] EXCEPT !.Position =
                RebalancedPosition(Len(o), (CHOOSE k \in DOMAIN o : o[k] = i) - 1)]
        ELSE tbl[i]]

\* recalculateTaskKanbanPositions(s, bucketID) on the table tbl
recalculateTaskKanbanPositions(tbl, o) ==
    [i \in DOMAIN tbl |->
        IF \E k \in DOMAIN o : o[k] = i
        THEN [tbl[i] EXCEPT !.KanbanPosition =
                RebalancedPosition(Len(o), (CHOOSE k \in DOMAIN o : o[k] = i) - 1)]
        ELSE tbl[i]]

\* A variant that counts the rows read from 1 where the code counts from 0
writePositionFromOne(tbl, o, k) ==
    IF o[k] \in DOMAIN tbl
    THEN [tbl EXCEPT ![o[k]].Position = RebalancedPosition(Len(o), k)]
    ELSE tbl

\* One turn of the loop of recalculateTaskPositions: the UPDATE of the
\* position of the k-th row read, allTasks[k-1], on the table as it is now.
\* An UPDATE ... WHERE id = ? of a row that is gone changes nothing.
writePosition(tbl, o, k) ==
    IF o[k] \in DOMAIN tbl
    THEN [tbl EXCEPT ![o[k]].Position = RebalancedPosition(Len(o), k - 1)]
    ELSE tbl

-----------------------------------------------------------------------------
(* Reminders *)

\* A reminder with an absolute trigger
NoReminder(at) ==
    [Reminder |-> at, RelativePeriod |-> 0, RelativeTo |-> ReminderRelationNone]

overwriteRemindersWithReminderDates(reminderDates) ==
    [i \in 1..Len(reminderDates) |->
        [Reminder |-> reminderDates[i], RelativePeriod |-> 0,
         RelativeTo |-> ReminderRelationNone]]

\* A variant that keeps the trigger a request carries for an anchored reminder
RelativeReminderDateKeepsTrigger(task, reminder) ==
    IF reminder.Reminder # 0 THEN reminder
    ELSE [reminder EXCEPT !.Reminder =
            IF reminder.RelativeTo = ReminderRelationDueDate
            THEN task.DueDate + reminder.RelativePeriod
            ELSE task.StartDate + reminder.RelativePeriod]

\* One reminder of updateRelativeReminderDates
RelativeReminderDate(task, reminder) ==
    LET anchor == IF reminder.RelativeTo = ReminderRelationDueDate
                  THEN task.DueDate
                  ELSE IF reminder.RelativeTo = ReminderRelationStartDate
                  THEN task.StartDate
                  ELSE task.EndDate
    IN  IF reminder.RelativeTo \in {ReminderRelationDueDate,
                ReminderRelationStartDate, ReminderRelationEndDate}
        THEN [reminder EXCEPT !.Reminder =
                IF anchor # 0 THEN anchor + reminder.RelativePeriod ELSE 0]
        ELSE IF reminder.RelativeTo # ReminderRelationNone
        THEN [reminder EXCEPT !.Reminder = 0]
        ELSE reminder

\* A variant that accepts a relative period without a relation
updateRelativeReminderDatesNoError(task) ==
    [err |-> NoError,
     Reminders |-> [i \in 1..Len(task.Reminders) |->
                      RelativeReminderDate(task, task.Reminders[i])]]

\* updateRelativeReminderDates: the error and the reminders it leaves
updateRelativeReminderDates(task) ==
    LET known == {ReminderRelationDueDate, ReminderRelationStartDate,
                  ReminderRelationEndDate}
        bad == {i \in 1..Len(task.Reminders) :
                  /\ task.Reminders[i].RelativeTo \notin known
                  /\ task.Reminders[i].RelativePeriod # 0}
    IN  [err |-> IF bad = {} THEN NoError ELSE ErrReminderRelativeToMissing,
         Reminders |-> [i \in 1..Len(task.Reminders) |->
                          IF \E b \in bad : b < i THEN task.Reminders[i]
                          ELSE RelativeReminderDate(task, task.Reminders[i])]]

\* A variant that stores every reminder
ReminderRowsAll(rs) == {rs[i] : i \in 1..Len(rs)}

\* reminderMap[reminder.Reminder.UTC().Unix()] = reminder: of the reminders
\* with one trigger instant, the last one stays.
ReminderRows(rs) ==
    {rs[i] : i \in {j \in 1..Len(rs) :
                      \A k \in (j + 1)..Len(rs) :
                          rs[k].Reminder # rs[j].Reminder}}

\* updateReminders(s, task): the error and the rows of the task afterwards.
\* The delete of the old rows comes before the error.
updateReminders(task) ==
    LET given == IF task.HasReminderDates
                 THEN overwriteRemindersWithReminderDates(task.ReminderDates)
                 ELSE task.Reminders
        rel == updateRelativeReminderDates([task EXCEPT !.Reminders = given])
    IN  [err |-> rel.err,
         rows |-> IF rel.err # NoError THEN {} ELSE ReminderRows(rel.Reminders)]

\* getRemindersForTasks: the rows of one task, ORDER BY reminder asc
RECURSIVE RowsAscending(_)
RowsAscending(rows) ==
    IF rows = {} THEN <<>>
    ELSE LET r == CHOOSE x \in rows : \A y \in rows : x.Reminder <= y.Reminder
         IN  <<r>> \o RowsAscending(rows \ {r})

-----------------------------------------------------------------------------
(* Task.Create and Task.Update *)

Row(t) ==
    [ProjectID |-> t.ProjectID, BucketID |-> t.BucketID, Done |-> t.Done,
     DoneAt |-> t.DoneAt, DueDate |-> t.DueDate, StartDate |-> t.StartDate,
     EndDate |-> t.EndDate, RepeatAfter |-> t.RepeatAfter,
     RepeatMode |-> t.RepeatMode, Index |-> t.Index,
     Position |-> t.Position, KanbanPosition |-> t.KanbanPosition]

Outcome(op, id, err, req, recur, unmarked, from, target) ==
    [op |-> op, id |-> id, err |-> err, req |-> req, recur |-> recur,
     unmarked |-> unmarked, from |-> from, target |-> target]

\* createTask with the index that getNextTaskIndex gave it
createTask(req, index) ==
    /\ \E sb \in {setTaskBucket(req, FALSE, NoTask, TRUE)} :
        \E t \in {[sb.task EXCEPT
                     !.Index = index,
                     !.Position = calculateDefaultPosition(index, @),
                     !.KanbanPosition = calculateDefaultPosition(index, @)]} :
        \E rem \in {updateReminders(t)} :
          IF ~GetProjectSimpleByID(req.ProjectID)
          THEN /\ last' = Outcome("Create", 0, ErrProjectDoesNotExist, req,
                                  "none", FALSE, 0, 0)
               /\ UNCHANGED <<tasks, reminders, nextID>>
          ELSE IF sb.err # NoError
          THEN /\ last' = Outcome("Create", 0, sb.err, req, "none", FALSE,
                                  0, 0)
               /\ UNCHANGED <<tasks, reminders, nextID>>
          ELSE /\ tasks' = (nextID :> Row(t)) @@ tasks
               /\ reminders' = (nextID :> rem.rows) @@ reminders
               /\ nextID' = nextID + 1
               /\ last' = Outcome("Create", nextID, rem.err, req, "none",
                                  FALSE, 0, sb.bucket.ID)
    /\ UNCHANGED now

\* Task.Create
Create(req) ==
    /\ createTask(req, getNextTaskIndex(req.ProjectID))
    /\ UNCHANGED call

\* mergo.Merge(&ot, t, mergo.WithOverride): a non-empty field of t replaces
\* the field of ot; a time.Time is a struct without exported fields, which
\* mergo never takes for empty, so every time of t replaces the time of ot.
mergoMerge(ot, t) ==
    [ot EXCEPT
        !.Done = IF t.Done THEN TRUE ELSE @,
        !.DoneAt = t.DoneAt,
        !.DueDate = t.DueDate,
        !.StartDate = t.StartDate,
        !.EndDate = t.EndDate,
        !.ProjectID = IF t.ProjectID # 0 THEN t.ProjectID ELSE @,
        !.BucketID = IF t.BucketID # 0 THEN t.BucketID ELSE @,
        !.RepeatAfter = IF t.RepeatAfter # 0 THEN t.RepeatAfter ELSE @,
        !.RepeatMode = IF t.RepeatMode # 0 THEN t.RepeatMode ELSE @,
        !.Index = IF t.Index # 0 THEN t.Index ELSE @,
        !.Position = IF t.Position # ZeroPosition THEN t.Position ELSE @,
        !.KanbanPosition =
            IF t.KanbanPosition # ZeroPosition THEN t.KanbanPosition ELSE @]

\* A variant that leaves the positions as the merge left them
resetZeroValuesKeepsPositions(ot, t) ==
    [ot EXCEPT
        !.Done = IF ~t.Done THEN FALSE ELSE @,
        !.DueDate = IF t.DueDate = 0 THEN 0 ELSE @,
        !.RepeatAfter = IF t.RepeatAfter = 0 THEN 0 ELSE @,
        !.StartDate = IF t.StartDate = 0 THEN 0 ELSE @,
        !.EndDate = IF t.EndDate = 0 THEN 0 ELSE @,
        !.RepeatMode = IF t.RepeatMode = TaskRepeatModeDefault
                       THEN TaskRepeatModeDefault ELSE @]

\* The fields Update resets by hand after the merge
resetZeroValues(ot, t) ==
    [ot EXCEPT
        !.Done = IF ~t.Done THEN FALSE ELSE @,
        !.DueDate = IF t.DueDate = 0 THEN 0 ELSE @,
        !.RepeatAfter = IF t.RepeatAfter = 0 THEN 0 ELSE @,
        !.StartDate = IF t.StartDate = 0 THEN 0 ELSE @,
        !.EndDate = IF t.EndDate = 0 THEN 0 ELSE @,
        !.Position = IF t.Position = ZeroPosition THEN ZeroPosition ELSE @,
        !.KanbanPosition =
            IF t.KanbanPosition = ZeroPosition THEN ZeroPosition ELSE @,
        !.RepeatMode = IF t.RepeatMode = TaskRepeatModeDefault
                       THEN TaskRepeatModeDefault ELSE @]

\* The policy of updateDone that reset the completion flag, if one did
RecurrenceOf(ot, t) ==
    IF ot.Done \/ ~t.Done THEN "none"
    ELSE IF ot.RepeatMode = TaskRepeatModeMonth THEN "month"
    ELSE IF ot.RepeatAfter = 0 THEN "none"
    ELSE IF ot.RepeatMode = TaskRepeatModeFromCurrentDate THEN "current"
    ELSE IF ot.RepeatMode = TaskRepeatModeDefault THEN "default"
    ELSE "none"

\* The dates a recurrence computed lie in the calendar of the model.
InCalendar(ot, t, recur) ==
    /\ \A d \in {t.DueDate, t.StartDate, t.EndDate} : d \in 0..MaxDay
    /\ \A i \in 1..Len(t.Reminders) : t.Reminders[i].Reminder \in 0..MaxDay
    /\ recur # "none" =>
        /\ ot.DueDate # 0 => t.DueDate # 0
        /\ ot.StartDate # 0 => t.StartDate # 0
        /\ ot.EndDate # 0 => t.EndDate # 0
        /\ \A i \in 1..Len(t.Reminders) : t.Reminders[i].Reminder # 0

\* The old task as Update loads it: the row and its reminders
OldTask(id) ==
    [ProjectID |-> tasks[id].ProjectID, BucketID |-> tasks[id].BucketID,
     Done |-> tasks[id].Done, DoneAt |-> tasks[id].DoneAt,
     DueDate |-> tasks[id].DueDate, StartDate |-> tasks[id].StartDate,
     EndDate |-> tasks[id].EndDate, RepeatAfter |-> tasks[id].RepeatAfter,
     RepeatMode |-> tasks[id].RepeatMode, Index |-> tasks[id].Index,
     Position |-> tasks[id].Position,
     KanbanPosition |-> tasks[id].KanbanPosition,
     Reminders |-> RowsAscending(reminders[id])]

\* A repeating task that reaches the done bucket is marked done and stays in
\* its bucket.
keepRepeatingTaskInBucket(ot, sb) ==
    IF sb.bucket.IsDoneBucket /\ sb.task.RepeatAfter > 0
    THEN [sb.task EXCEPT !.Done = TRUE, !.BucketID = ot.BucketID]
    ELSE sb.task

\* The row Update writes
SavedRow(ot, t, moved) ==
    LET merged == resetZeroValues(mergoMerge(ot, t), t)
    IN  [Row(merged) EXCEPT !.Index = IF moved THEN merged.Index ELSE ot.Index]

\* The position rebalancing after the write of row id
Rebalance(tbl, id) ==
    LET inProject == {i \in DOMAIN tbl : tbl[i].ProjectID = tbl[id].ProjectID}
        inBucket == {i \in DOMAIN tbl : tbl[i].BucketID = tbl[id].BucketID}
    IN  \E o1 \in IF BelowThreshold(tbl[id].Position)
                  THEN Orderings(tbl, inProject, "Position")
                  ELSE {<<>>} :
        \E tbl2 \in {IF BelowThreshold(tbl[id].Position)
                     THEN recalculateTaskPositions(tbl, o1) ELSE tbl} :
        \E o2 \in IF BelowThreshold(tbl[id].KanbanPosition)
                  THEN Orderings(tbl2, inBucket, "KanbanPosition")
                  ELSE {<<>>} :
          tasks' = IF BelowThreshold(tbl[id].KanbanPosition)
                   THEN recalculateTaskKanbanPositions(tbl2, o2)
                   ELSE tbl2

\* Task.Update of the stored task id with the request req, in the session of
\* the request
updateTask(id, req) ==
    /\ id \in DOMAIN tasks
    /\ \E ot \in {OldTask(id)} :
       \E t0 \in {IF req.ProjectID = 0
                  THEN [req EXCEPT !.ProjectID = ot.ProjectID] ELSE req} :
       \E sb \in {setTaskBucket(t0, TRUE, ot,
                                t0.BucketID # 0 /\ t0.BucketID # ot.BucketID)} :
       \E t1 \in {keepRepeatingTaskInBucket(ot, sb)} :
       \E t2 \in {updateDone(ot, t1, now)} :
       \E rem \in {updateReminders(t2)},
          moved \in {t2.ProjectID # 0 /\ ot.ProjectID # t2.ProjectID} :
       \E t3 \in {IF moved
                  THEN [t2 EXCEPT !.Index = getNextTaskIndex(t2.ProjectID)]
                  ELSE t2} :
       \E out \in {Outcome("Update", id,
                           IF sb.err # NoError THEN sb.err ELSE rem.err,
                           req, RecurrenceOf(ot, t1), ot.Done /\ ~t1.Done,
                           ot.BucketID, sb.bucket.ID)} :
         /\ InCalendar(ot, t2, out.recur)
         /\ last' = out
         /\ IF sb.err # NoError
            THEN UNCHANGED <<tasks, reminders>>
            ELSE IF rem.err # NoError
            THEN /\ reminders' = [reminders EXCEPT ![id] = {}]
                 /\ UNCHANGED tasks
            ELSE /\ reminders' = [reminders EXCEPT ![id] = rem.rows]
                 /\ \E tbl \in {[tasks EXCEPT
                                    ![id] = SavedRow(ot, t3, moved)]} :
                      Rebalance(tbl, id)
    /\ UNCHANGED <<nextID, now>>

\* Task.Update
Update(id, req) ==
    /\ updateTask(id, req)
    /\ UNCHANGED call

-----------------------------------------------------------------------------
(* The store: requests and specifications *)

\* The arguments of updateDone: the fields of a task it reads and writes
DateTask(done, due, start, end, after, mode, rems) ==
    [Done |-> done, DoneAt |-> 0, DueDate |-> due, StartDate |-> start,
     EndDate |-> end, RepeatAfter |-> after, RepeatMode |-> mode,
     Reminders |-> rems]

\* No direct call of updateDone was made.
NoCall ==
    [fn |-> "none", oldTask |-> DateTask(FALSE, 0, 0, 0, 0, 0, <<>>),
     newTask |-> DateTask(FALSE, 0, 0, 0, 0, 0, <<>>), now |-> 0,
     out |-> DateTask(FALSE, 0, 0, 0, 0, 0, <<>>)]

OnePosition == <<0, 20>>     \* the position 1.0

Request(project, bucket, done, doneAt, dates, after, mode, rems, position) ==
    [ProjectID |-> project, BucketID |-> bucket, Done |-> done,
     DoneAt |-> doneAt, DueDate |-> dates[1], StartDate |-> dates[2],
     EndDate |-> dates[3], RepeatAfter |-> after, RepeatMode |-> mode,
     Index |-> 0, Position |-> position, KanbanPosition |-> position,
     Reminders |-> rems, HasReminderDates |-> FALSE, ReminderDates |-> <<>>]

\* What a request says about the dates: nothing, or a due date between a start
\* date and an end date, and one reminder at the start date.
DateProfiles ==
    {[dates |-> <<0, 0, 0>>, rems |-> <<>>],
     [dates |-> <<2, 1, 3>>, rems |-> <<NoReminder(1)>>]}

\* Requests about the completion and the repetition of a task of project 1,
\* with or without a move into the done bucket; the task has no dates.
TaskRequests(project, position) ==
    {Request(project, bucket, done, 0, <<0, 0, 0>>, after, mode, <<>>,
             position) :
        bucket \in {0, 3}, done \in BOOLEAN,
        after \in 0..MaxStoreInterval, mode \in RepeatModes}

\* Requests about the completion, the repetition and the dates of a task of
\* project 1; the task stays in its bucket.
DateRequests(project, position) ==
    {Request(project, 0, done, doneAt, p.dates, after, mode, p.rems,
             position) :
        done \in BOOLEAN, doneAt \in {0, 1}, p \in DateProfiles,
        after \in 0..MaxStoreInterval, mode \in RepeatModes}

\* Requests that place a task of project 1 on the board and mark it done or
\* not done; the task does not repeat and has no dates.
BoardRequests(project, position) ==
    {Request(project, bucket, done, 0, <<0, 0, 0>>, 0, TaskRepeatModeDefault,
             <<>>, position) :
        bucket \in {0, 1, 2, 3}, done \in BOOLEAN}

SmallPosition == <<0, 1>>   \* the position 0.05

\* The list position and the board position of a request: none, one of them
\* below 0.1, or both 1.0.
PositionPairs ==
    {<<ZeroPosition, ZeroPosition>>, <<SmallPosition, OnePosition>>,
     <<OnePosition, SmallPosition>>, <<OnePosition, OnePosition>>}

\* Requests that place a task of project 1 in the list and on the board; the
\* task goes to its default or stored bucket, or to bucket 2.
PositionRequests(project) ==
    {[Request(project, bucket, FALSE, 0, <<0, 0, 0>>, 0,
              TaskRepeatModeDefault, <<>>, pp[1])
        EXCEPT !.KanbanPosition = pp[2]] :
        bucket \in {0, 2}, pp \in PositionPairs}

\* A reminder as a request carries it
Reminder(at, period, relativeTo) ==
    [Reminder |-> at, RelativePeriod |-> period, RelativeTo |-> relativeTo]

\* The reminder lists a request draws from.  The reminders relative to the
\* due date and to the start date carry triggers of their own; the reminder
\* relative to the start date falls on day 2, the day of the absolute one,
\* when the start date is day 1; the last list has a reminder with a relative
\* period and no relation.
RequestReminders ==
    {<<>>,
     <<NoReminder(2), Reminder(0, 1, ReminderRelationStartDate)>>,
     <<Reminder(1, 1, ReminderRelationDueDate), NoReminder(2)>>,
     <<NoReminder(2), Reminder(2, 1, ReminderRelationNone)>>}

\* The reminders of a request, as Reminders or as the deprecated
\* ReminderDates next to Reminders.
ReminderSubmissions ==
    {[rems |-> rems, legacy |-> FALSE, dates |-> <<>>] :
        rems \in RequestReminders}
    \cup {[rems |-> <<Reminder(1, 1, ReminderRelationDueDate)>>,
           legacy |-> TRUE, dates |-> <<2, 2>>]}

\* Requests that set the reminders of a repeating task of project 1; the task
\* has no dates or a due date and a start date, and is marked done or not.
ReminderRequests(project) ==
    {[Request(project, 0, done, 0, dates, 1, TaskRepeatModeDefault,
              sub.rems, OnePosition)
        EXCEPT !.HasReminderDates = sub.legacy,
               !.ReminderDates = sub.dates] :
        done \in BOOLEAN, dates \in {<<0, 0, 0>>, <<2, 1, 0>>},
        sub \in ReminderSubmissions}

NoRequest ==
    Request(0, 0, FALSE, 0, <<0, 0, 0>>, 0, TaskRepeatModeDefault, <<>>,
            ZeroPosition)

\* Task.Delete: the row and its reminders go
Delete(id) ==
    /\ id \in DOMAIN tasks
    /\ tasks' = [i \in DOMAIN tasks \ {id} |-> tasks[i]]
    /\ reminders' = [i \in DOMAIN reminders \ {id} |-> reminders[i]]
    /\ last' = Outcome("Delete", id, NoError, NoRequest, "none", FALSE,
                       tasks[id].BucketID, 0)
    /\ UNCHANGED <<nextID, now, call>>

EmptyStore ==
    /\ tasks = <<>>
    /\ reminders = <<>>
    /\ nextID = 1
    /\ last = Outcome("none", 0, NoError, NoRequest, "none", FALSE, 0, 0)
    /\ call = NoCall

\* The clock moves on between two requests.
Tick ==
    /\ now < MaxClock
    /\ now' = now + 1
    /\ last' = Outcome("Tick", 0, NoError, NoRequest, "none", FALSE, 0, 0)
    /\ UNCHANGED <<tasks, reminders, nextID, call>>

\* Tasks that are marked done and not done, at some time of the clock.  A
\* Create leaves the position to the default, an Update sends the position
\* 1.0.
Init ==
    /\ EmptyStore
    /\ now \in 1..MaxClock

Next ==
    \/ \E req \in TaskRequests(1, ZeroPosition) :
         nextID <= MaxTasks /\ Create(req)
    \/ \E id \in DOMAIN tasks, req \in TaskRequests(0, OnePosition) :
         Update(id, req)

Spec == Init /\ [][Next]_vars

\* One task and its dates, at the first day of the clock.
InitDates ==
    /\ EmptyStore
    /\ now = 1

NextDates ==
    \/ \E req \in DateRequests(1, ZeroPosition) :
         nextID <= MaxDatedTasks /\ Create(req)
    \/ \E id \in DOMAIN tasks, req \in DateRequests(0, OnePosition) :
         Update(id, req)

SpecDates == InitDates /\ [][NextDates]_vars

\* Several tasks on the board of project 1, while the clock runs.
InitBoard ==
    /\ EmptyStore
    /\ now = 1

NextBoard ==
    \/ \E req \in BoardRequests(1, ZeroPosition) :
         nextID <= MaxBoardTasks /\ Create(req)
    \/ \E id \in DOMAIN tasks, req \in BoardRequests(0, OnePosition) :
         Update(id, req)
    \/ Tick

SpecBoard == InitBoard /\ [][NextBoard]_vars

\* Several tasks of project 1 and their positions.
NextPositions ==
    \/ \E req \in PositionRequests(1) :
         nextID <= MaxPositionTasks /\ Create(req)
    \/ \E id \in DOMAIN tasks, req \in PositionRequests(0) :
         Update(id, req)

SpecPositions == InitBoard /\ [][NextPositions]_vars

\* Requests that put a task in a project, name no bucket, and make it repeat
\* or not
ProjectRequests(project) ==
    {Request(project, 0, FALSE, 0, <<0, 0, 0>>, after,
             TaskRepeatModeDefault, <<>>, OnePosition) :
        after \in 0..MaxStoreInterval}

\* Tasks of both projects: created, moved between the projects, deleted.
NextProjects ==
    \/ \E project \in Projects :
         \E req \in ProjectRequests(project) :
            /\ nextID <= MaxProjectTasks
            /\ getNextTaskIndex(project) <= MaxIndex
            /\ Create(req)
    \/ \E id \in DOMAIN tasks, project \in {0} \cup Projects :
         \E req \in ProjectRequests(project) :
            /\ getNextTaskIndex(project) <= MaxIndex
            /\ Update(id, req)
    \/ \E id \in DOMAIN tasks : Delete(id)

SpecProjects == InitBoard /\ [][NextProjects]_vars

(* Two requests inside createTask.  Each request has its own session; the code
   takes no lock and the index column has no unique key, so the read of the
   highest index (getNextTaskIndex) and the insert are two steps of a request
   and steps of other requests may come between them.  `call` holds, for every
   running request, where it is and what it has read. *)
Sessions == 1..MaxSessions

IdleSession == [pc |-> "idle", project |-> 0, index |-> 0]

\* A task for the default bucket of the project, at the position 1.0: the
\* bucket has no limit, so setTaskBucket gives the same answer whatever other
\* requests have stored before the insert.
IndexRequest(project) ==
    Request(project, 0, FALSE, 0, <<0, 0, 0>>, 0, TaskRepeatModeDefault, <<>>,
            OnePosition)

Running == {p \in Sessions : call.pending[p].pc # "idle"}

\* createTask up to and with t.Index, err = getNextTaskIndex(s, t.ProjectID)
ReadIndex(p, project) ==
    /\ call.pending[p].pc = "idle"
    /\ nextID + Cardinality(Running) <= MaxIndexTasks
    /\ getNextTaskIndex(project) <= MaxIndex
    /\ call' = [call EXCEPT !.pending[p] =
                    [pc |-> "read", project |-> project,
                     index |-> getNextTaskIndex(project)]]
    /\ UNCHANGED <<tasks, reminders, nextID, last, now>>

\* createTask from s.Insert(t) on, with the index read before
InsertTask(p) ==
    /\ call.pending[p].pc = "read"
    /\ createTask(IndexRequest(call.pending[p].project),
                  call.pending[p].index)
    /\ call' = [call EXCEPT !.pending[p] = IdleSession]

InitIndex ==
    /\ tasks = <<>>
    /\ reminders = <<>>
    /\ nextID = 1
    /\ last = Outcome("none", 0, NoError, NoRequest, "none", FALSE, 0, 0)
    /\ now = 1
    /\ call = [fn |-> "createTask", pending |-> [p \in Sessions |-> IdleSession]]

NextIndex ==
    \/ \E p \in Sessions, project \in Projects : ReadIndex(p, project)
    \/ \E p \in Sessions : InsertTask(p)
    \/ \E id \in DOMAIN tasks, project \in Projects :
         /\ project # tasks[id].ProjectID
         /\ getNextTaskIndex(project) <= MaxIndex
         /\ Update(id, IndexRequest(project))
    \/ \E id \in DOMAIN tasks : Delete(id)

SpecIndex == InitIndex /\ [][NextIndex]_vars

(* One request inside the rebalance of the list positions of a project, and
   other requests next to it.  The save of Task.Update, the read of
   recalculateTaskPositions and each of its writes are statements of their
   own on the session; the code takes no lock, so whole requests of other
   sessions may come between them.  `call` holds where the rebalancing request
   is, the table as its save left it, the rows in the order it read them, and
   how many other requests have written since its save. *)
HighPosition == <<200, 0>>

\* The update that starts the rebalance: a list position below 0.1
RebalanceRequest ==
    [Request(0, 0, FALSE, 0, <<0, 0, 0>>, 0, TaskRepeatModeDefault, <<>>,
             OnePosition)
        EXCEPT !.Position = SmallPosition]

\* The update of another request: a list position above the default ones
MoveRequest ==
    [Request(0, 0, FALSE, 0, <<0, 0, 0>>, 0, TaskRepeatModeDefault, <<>>,
             OnePosition)
        EXCEPT !.Position = HighPosition]

\* The create of another request: a task of project 1 without a position
NewTaskRequest ==
    Request(1, 0, FALSE, 0, <<0, 0, 0>>, 0, TaskRepeatModeDefault, <<>>,
            ZeroPosition)

NoRebalance ==
    [fn |-> "recalculateTaskPositions", pc |-> "idle", id |-> 0,
     saved |-> <<>>, order |-> <<>>, next |-> 0, others |-> 0]

\* Task.Update with RebalanceRequest up to and with s.ID(t.ID).Update(ot)
SavePosition(id) ==
    /\ call.pc = "idle"
    /\ id \in DOMAIN tasks
    /\ \E ot \in {OldTask(id)} :
       \E t0 \in {[RebalanceRequest EXCEPT !.ProjectID = ot.ProjectID]} :
       \E sb \in {setTaskBucket(t0, TRUE, ot,
                                t0.BucketID # 0 /\ t0.BucketID # ot.BucketID)} :
       \E t1 \in {keepRepeatingTaskInBucket(ot, sb)} :
       \E t2 \in {updateDone(ot, t1, now)} :
       \E rem \in {updateReminders(t2)} :
         /\ sb.err = NoError
         /\ rem.err = NoError
         /\ tasks' = [tasks EXCEPT ![id] = SavedRow(ot, t2, FALSE)]
         /\ reminders' = [reminders EXCEPT ![id] = rem.rows]
         /\ last' = Outcome("Update", id, NoError, RebalanceRequest,
                            RecurrenceOf(ot, t1), ot.Done /\ ~t1.Done,
                            ot.BucketID, sb.bucket.ID)
         /\ call' = [NoRebalance EXCEPT !.pc = "saved", !.id = id,
                                        !.saved = tasks']
    /\ UNCHANGED <<nextID, now>>

\* recalculateTaskPositions: Where("project_id = ?").OrderBy("position asc")
ReadPositions ==
    /\ call.pc = "saved"
    /\ BelowThreshold(tasks[call.id].Position)
    /\ \E o \in Orderings(tasks,
                          {i \in DOMAIN tasks :
                              tasks[i].ProjectID = tasks[call.id].ProjectID},
                          "Position") :
         call' = [call EXCEPT !.pc = "write", !.order = o, !.next = 1]
    /\ UNCHANGED <<tasks, reminders, nextID, last, now>>

\* recalculateTaskPositions: one turn of the loop over allTasks
WritePosition ==
    /\ call.pc = "write"
    /\ tasks' = writePosition(tasks, call.order, call.next)
    /\ call' = [call EXCEPT
                    !.next = @ + 1,
                    !.pc = IF call.next = Len(call.order) THEN "done"
                           ELSE "write"]
    /\ UNCHANGED <<reminders, nextID, last, now>>

\* The rebalancing request returns.
Return ==
    /\ call.pc = "done"
    /\ call' = NoRebalance
    /\ UNCHANGED <<tasks, reminders, nextID, last, now>>

\* A whole request of another session runs; while the rebalancing request is
\* between its save and its return, the request is counted.
OtherRequest ==
    /\ call.pc # "done"
    /\ call.pc # "idle" => call.others < MaxWindowWrites
    /\ call' = [call EXCEPT
                    !.others = IF call.pc = "idle" THEN 0 ELSE @ + 1]

InitRebalance ==
    /\ tasks = <<>>
    /\ reminders = <<>>
    /\ nextID = 1
    /\ last = Outcome("none", 0, NoError, NoRequest, "none", FALSE, 0, 0)
    /\ now = 1
    /\ call = NoRebalance

NextRebalance ==
    \/ \E id \in DOMAIN tasks : SavePosition(id)
    \/ ReadPositions
    \/ WritePosition
    \/ Return
    \/ /\ nextID <= MaxRebalanceTasks
       /\ OtherRequest
       /\ createTask(NewTaskRequest, getNextTaskIndex(NewTaskRequest.ProjectID))
    \/ \E id \in DOMAIN tasks :
         /\ OtherRequest
         /\ updateTask(id, MoveRequest)

SpecRebalance == InitRebalance /\ [][NextRebalance]_vars

\* One task of project 1 and its reminders.
NextReminders ==
    \/ \E req \in ReminderRequests(1) :
         nextID <= MaxReminderTasks /\ Create(req)
    \/ \E id \in DOMAIN tasks, req \in ReminderRequests(0) :
         Update(id, req)

SpecReminders == InitBoard /\ [][NextReminders]_vars

-----------------------------------------------------------------------------
(* Direct calls of updateDone: the arguments are drawn, then the call runs *)

\* Reminder lists as getRemindersForTasks loads them: ascending, one row per
\* trigger instant.
ReminderLists(dates) ==
    {<<>>}
    \cup {<<NoReminder(a)>> : a \in dates}
    \cup {<<NoReminder(p[1]), NoReminder(p[2])>> :
            p \in {q \in dates \X dates : q[1] < q[2] /\ MaxReminders >= 2}}
    \cup {<<NoReminder(p[1]), NoReminder(p[2]), NoReminder(p[3])>> :
            p \in {q \in dates \X dates \X dates :
                     q[1] < q[2] /\ q[2] < q[3] /\ MaxReminders >= 3}}

\* The request echoes the stored task and sets the completion flag.
Inputs(dues, others, rems, modes, clocks) ==
    {[fn |-> "input",
      oldTask |-> DateTask(od, due, start, end, after, mode, rs),
      newTask |-> DateTask(nd, due, start, end, after, mode, rs),
      now |-> t,
      out |-> DateTask(nd, due, start, end, after, mode, rs)] :
        od \in BOOLEAN, nd \in BOOLEAN, due \in dues, start \in others,
        end \in others, after \in 0..MaxInterval, mode \in modes,
        rs \in rems, t \in clocks}

CallUpdateDone ==
    /\ call.fn = "input"
    /\ call' = [call EXCEPT
                  !.fn = "updateDone",
                  !.out = updateDone(call.oldTask, call.newTask, call.now)]
    /\ UNCHANGED <<tasks, reminders, nextID, now, last>>


InitRecur ==
    /\ tasks = <<>>
    /\ reminders = <<>>
    /\ nextID = 1
    /\ now = 1
    /\ last = Outcome("none", 0, NoError, NoRequest, "none", FALSE, 0, 0)
    /\ call \in Inputs(0..MaxDate, 0..MaxDate, ReminderLists(1..MaxDate),
                       RepeatModes, 1..MaxNow)

NextRecur == CallUpdateDone

SpecRecur == InitRecur /\ [][NextRecur]_vars

\* The monthly policy over every day from 2024-01-01 on: all month lengths,
\* the leap February, the turn of the year.
InitMonth ==
    /\ tasks = <<>>
    /\ reminders = <<>>
    /\ nextID = 1
    /\ now = 1
    /\ last = Outcome("none", 0, NoError, NoRequest, "none", FALSE, 0, 0)
    /\ call \in Inputs(1..MaxMonthDay, {0}, {<<>>}, {TaskRepeatModeMonth}, {1})

SpecMonth == InitMonth /\ [][NextRecur]_vars

-----------------------------------------------------------------------------
(* Filters: the parsed expression of fexpr.Parse is the input.  An item of  *)
(* an expression is a term (field, sign, literal) or a group of items; both *)
(* carry the join to the item before.                                       *)

taskFilterComparatorInvalid == "invalid"
taskFilterComparatorEquals == "="
taskFilterComparatorGreater == ">"
taskFilterComparatorGreateEquals == ">="
taskFilterComparatorLess == "<"
taskFilterComparatorLessEquals == "<="
taskFilterComparatorNotEquals == "!="
taskFilterComparatorLike == "like"
taskFilterComparatorIn == "in"

filterConcatAnd == "and"
filterConcatOr == "or"

ErrInvalidTaskFilterComparator == "ErrInvalidTaskFilterComparator"
ErrInvalidTaskField == "ErrInvalidTaskField"
ErrInvalidTaskFilterValue == "ErrInvalidTaskFilterValue"
ErrParse == "strconv.ErrSyntax"

\* A variant that lets every sign through as it is written
getFilterComparatorFromOpUnchecked(op) ==
    [comparator |-> op, err |-> NoError]

\* getFilterComparatorFromOp: the signs of fexpr are = != ~ !~ < <= > >= and
\* their ?-forms.
getFilterComparatorFromOp(op) ==
    IF op = "=" THEN [comparator |-> taskFilterComparatorEquals, err |-> NoError]
    ELSE IF op = ">"
    THEN [comparator |-> taskFilterComparatorGreater, err |-> NoError]
    ELSE IF op = ">="
    THEN [comparator |-> taskFilterComparatorGreateEquals, err |-> NoError]
    ELSE IF op = "<"
    THEN [comparator |-> taskFilterComparatorLess, err |-> NoError]
    ELSE IF op = "<="
    THEN [comparator |-> taskFilterComparatorLessEquals, err |-> NoError]
    ELSE IF op = "!="
    THEN [comparator |-> taskFilterComparatorNotEquals, err |-> NoError]
    ELSE IF op = "~"
    THEN [comparator |-> taskFilterComparatorLike, err |-> NoError]
    ELSE IF op = "?=" \/ op = "in"
    THEN [comparator |-> taskFilterComparatorIn, err |-> NoError]
    ELSE [comparator |-> taskFilterComparatorInvalid,
          err |-> ErrInvalidTaskFilterComparator]

validateTaskFieldComparator(comparator) ==
    IF comparator \in {taskFilterComparatorEquals, taskFilterComparatorGreater,
                       taskFilterComparatorGreateEquals,
                       taskFilterComparatorLess,
                       taskFilterComparatorLessEquals,
                       taskFilterComparatorNotEquals,
                       taskFilterComparatorLike, taskFilterComparatorIn}
    THEN NoError
    ELSE ErrInvalidTaskFilterComparator

\* strings.ReplaceAll(strcase.ToCamel(fieldName), "Id", "ID") on the field
\* names a filter is drawn from
RealFieldName(fieldName) ==
    IF fieldName = "priority" THEN "Priority"
    ELSE IF fieldName = "done" THEN "Done"
    ELSE IF fieldName = "project_id" THEN "ProjectID"
    ELSE IF fieldName = "foo" THEN "Foo"
    ELSE IF fieldName = "title" THEN "Title"
    ELSE IF fieldName = "percent_done" THEN "PercentDone"
    ELSE IF fieldName = "due_date" THEN "DueDate"
    ELSE IF fieldName = "reminder_dates" THEN "ReminderDates"
    ELSE IF fieldName = "reminders" THEN "Reminders"
    ELSE IF fieldName = "assignees" THEN "Assignees"
    ELSE IF fieldName = "labels" THEN "Labels"
    ELSE IF fieldName = "label_id" THEN "LabelID"
    ELSE IF fieldName = "namespace" THEN "Namespace"
    ELSE IF fieldName = "namespace_id" THEN "NamespaceID"
    ELSE IF fieldName = "repeat_mode" THEN "RepeatMode"
    ELSE IF fieldName = "related_tasks" THEN "RelatedTasks"
    ELSE IF fieldName = "subscription" THEN "Subscription"
    ELSE IF fieldName = "created_by" THEN "CreatedBy"
    ELSE fieldName

\* reflect.TypeOf(&Task{}).Elem().FieldByName(realFieldName): the kind of the
\* field, "" when Task has no such field
FieldKind(realFieldName) ==
    IF realFieldName \in {"Priority", "ProjectID"} THEN "int64"
    ELSE IF realFieldName = "Done" THEN "bool"
    ELSE IF realFieldName = "Title" THEN "string"
    ELSE IF realFieldName = "PercentDone" THEN "float64"
    ELSE IF realFieldName = "DueDate" THEN "time.Time"
    ELSE IF realFieldName = "ReminderDates" THEN "[]time.Time"
    ELSE IF realFieldName \in {"Reminders", "Assignees", "Labels"}
    THEN "[]ptr"
    ELSE IF realFieldName = "RepeatMode" THEN "int"
    ELSE IF realFieldName = "RelatedTasks" THEN "map"
    ELSE IF realFieldName \in {"Subscription", "CreatedBy"} THEN "ptr"
    ELSE ""

\* strconv.ParseInt(rawValue, 10, 64) on the literals a filter is drawn from
ParseInt(rawValue) ==
    IF rawValue = "0" THEN [value |-> 0, err |-> NoError]
    ELSE IF rawValue = "1" THEN [value |-> 1, err |-> NoError]
    ELSE IF rawValue = "3" THEN [value |-> 3, err |-> NoError]
    ELSE IF rawValue = "5" THEN [value |-> 5, err |-> NoError]
    ELSE [value |-> 0, err |-> ErrParse]

\* strconv.ParseBool(rawValue); a bool is 0 or 1, as the store compares it
ParseBool(rawValue) ==
    IF rawValue \in {"1", "t", "T", "TRUE", "true", "True"}
    THEN [value |-> 1, err |-> NoError]
    ELSE IF rawValue \in {"0", "f", "F", "FALSE", "false", "False"}
    THEN [value |-> 0, err |-> NoError]
    ELSE [value |-> 0, err |-> ErrParse]

\* strconv.ParseFloat(rawValue, 64) on the literals drawn; the value is in
\* hundredths
ParseFloat(rawValue) ==
    IF rawValue \in {"0", "1", "3", "5"}
    THEN [value |-> 100 * ParseInt(rawValue).value, err |-> NoError]
    ELSE IF rawValue = "0.5" THEN [value |-> 50, err |-> NoError]
    ELSE [value |-> 0, err |-> ErrParse]

\* datemath.Parse and, when it fails, parseTimeFromUserInput: the literals
\* day1 and day2 stand for the RFC 3339 forms of two days, in days
ParseTime(rawValue) ==
    IF rawValue = "day1" THEN [value |-> 1, err |-> NoError]
    ELSE IF rawValue = "day2" THEN [value |-> 2, err |-> NoError]
    ELSE [value |-> 0, err |-> ErrParse]

\* The outcome of a call that panics
Panic == "panic"

\* getValueForField on the kind of the field: a slice of pointers is a
\* relation and takes an id; the default case panics.
getValueForField(kind, rawValue) ==
    IF kind = "int64" THEN ParseInt(rawValue)
    ELSE IF kind = "float64" THEN ParseFloat(rawValue)
    ELSE IF kind = "string" THEN [value |-> rawValue, err |-> NoError]
    ELSE IF kind = "bool" THEN ParseBool(rawValue)
    ELSE IF kind = "time.Time" THEN ParseTime(rawValue)
    ELSE IF kind = "[]ptr" THEN ParseInt(rawValue)
    ELSE IF kind = "[]time.Time" THEN ParseTime(rawValue)
    ELSE [value |-> 0, err |-> Panic]

\* strings.Split(value, ",") on the literals drawn, as the set of the parts
Split(value) ==
    IF value = "a,b" THEN {"a", "b"}
    ELSE IF value = "1,x" THEN {"1", "x"}
    ELSE IF value = "1,3" THEN {"1", "3"}
    ELSE {value}

\* getNativeValueForTaskField: hasField says whether a reflect.StructField is
\* returned.  The assignees are not looked up in Task; the field of the
\* reminders is TaskReminder.Reminder, a time; with the comparator in every
\* part of the literal is converted and the first failure ends the loop.
getNativeValueForTaskField(fieldName, comparator, value) ==
    LET realFieldName == RealFieldName(fieldName)
        kind == IF realFieldName = "Reminders" THEN "time.Time"
                ELSE FieldKind(realFieldName)
        val == getValueForField(kind, value)
        vals == {getValueForField(kind, part) : part \in Split(value)}
    IN  IF realFieldName = "Assignees"
        THEN [hasField |-> FALSE, kind |-> "", value |-> Split(value),
              err |-> NoError]
        ELSE IF FieldKind(realFieldName) = ""
        THEN [hasField |-> FALSE, kind |-> kind, value |-> 0,
              err |-> ErrInvalidTaskField]
        ELSE IF comparator = taskFilterComparatorIn
        THEN IF \E v \in vals : v.err # NoError
             THEN [hasField |-> FALSE, kind |-> kind, value |-> 0,
                   err |-> (CHOOSE v \in vals : v.err # NoError).err]
             ELSE [hasField |-> FALSE, kind |-> kind,
                   value |-> {v.value : v \in vals}, err |-> NoError]
        ELSE [hasField |-> TRUE, kind |-> kind, value |-> val.value,
              err |-> val.err]

\* The zero taskFilter with the join of the expression
NoFilter(join) ==
    [field |-> "", value |-> 0, comparator |-> "", isNumeric |-> FALSE,
     join |-> IF join = filterConcatOr THEN filterConcatOr
              ELSE filterConcatAnd,
     isGroup |-> FALSE, subfilters |-> <<>>]

\* The first error of a sequence of parse results
FirstError(results) ==
    IF \A i \in 1..Len(results) : results[i].err = NoError THEN NoError
    ELSE results[CHOOSE i \in 1..Len(results) :
                    /\ results[i].err # NoError
                    /\ \A j \in 1..(i - 1) : results[j].err = NoError].err

\* A variant that reports what getNativeValueForTaskField reports
ParseTermKeepsError(f) ==
    LET cmp == getFilterComparatorFromOp(f.op)
        field == IF f.field = "project" THEN "project_id" ELSE f.field
        native == getNativeValueForTaskField(field, cmp.comparator, f.value)
        filter == [NoFilter(f.join) EXCEPT
                      !.field = field, !.comparator = cmp.comparator]
    IN  IF cmp.err # NoError THEN [filter |-> filter, err |-> cmp.err]
        ELSE IF validateTaskFieldComparator(cmp.comparator) # NoError
        THEN [filter |-> filter, err |-> ErrInvalidTaskFilterComparator]
        ELSE [filter |-> [filter EXCEPT
                             !.value = native.value,
                             !.isNumeric = native.kind = "int64"],
              err |-> native.err]

\* parseFilterFromExpression on a term (fexpr.Expr)
ParseTerm(f) ==
    LET cmp == getFilterComparatorFromOp(f.op)
        field == IF f.field = "project" THEN "project_id" ELSE f.field
        native == getNativeValueForTaskField(field, cmp.comparator, f.value)
        filter == [NoFilter(f.join) EXCEPT
                      !.field = field, !.comparator = cmp.comparator]
    IN  IF cmp.err # NoError THEN [filter |-> filter, err |-> cmp.err]
        ELSE IF validateTaskFieldComparator(cmp.comparator) # NoError
        THEN [filter |-> filter, err |-> ErrInvalidTaskFilterComparator]
        ELSE IF native.err = Panic
        THEN [filter |-> filter, err |-> Panic]
        ELSE IF native.err # NoError
        THEN [filter |-> filter, err |-> ErrInvalidTaskFilterValue]
        ELSE [filter |-> [filter EXCEPT
                             !.value = native.value,
                             !.isNumeric = native.hasField
                                           /\ native.kind = "int64"],
              err |-> NoError]

\* parseFilterFromExpression: a group gets the filters of its items as its
\* value and leaves before the comparator is validated.
RECURSIVE parseFilterFromExpression(_)
parseFilterFromExpression(f) ==
    IF f.isGroup
    THEN LET subs == [i \in 1..Len(f.items) |->
                        parseFilterFromExpression(f.items[i])]
         IN  [filter |-> [NoFilter(f.join) EXCEPT
                             !.isGroup = TRUE,
                             !.subfilters = [i \in 1..Len(subs) |->
                                               subs[i].filter]],
              err |-> FirstError(subs)]
    ELSE ParseTerm(f)

\* getTaskFiltersByCollections after fexpr.Parse
getTaskFiltersByCollections(parsedFilter) ==
    LET results == [i \in 1..Len(parsedFilter) |->
                      parseFilterFromExpression(parsedFilter[i])]
    IN  [filters |-> [i \in 1..Len(results) |-> results[i].filter],
         err |-> FirstError(results)]

\* A column value of a row: NULL or a number
Null == [null |-> TRUE, val |-> 0]
Val(n) == [null |-> FALSE, val |-> n]

\* The column a filter field names
Column(row, field) ==
    IF field = "priority" THEN row.priority
    ELSE IF field = "done" THEN row.done
    ELSE row.project_id

\* The collection a filter field is kept in: "" for a column of the tasks
RelatedTable(field) ==
    IF field = "reminders" THEN "task_reminders"
    ELSE IF field = "assignees" THEN "task_assignees"
    ELSE IF field \in {"labels", "label_id"} THEN "label_tasks"
    ELSE IF field \in {"namespace", "namespace_id"} THEN "projects"
    ELSE ""

RelatedTables == {"task_reminders", "task_assignees", "label_tasks", "projects"}

\* The rows of a collection that belong to a task, each as the value of the
\* column the filters of the collection name: reminder, username (of the
\* user of the assignment), label_id, namespace_id (of the project)
RelatedRows(row, table) ==
    IF table = "task_reminders" THEN {Val(r) : r \in row.reminders}
    ELSE IF table = "task_assignees" THEN {Val(u) : u \in row.assignees}
    ELSE IF table = "label_tasks" THEN {Val(l) : l \in row.labels}
    ELSE {row.namespace_id}

\* What the comparison of getFilterCond says of a column value; a comparison
\* with NULL selects nothing.  The value of a filter of the assignees is a
\* list, which Eq and Neq compare as IN and NOT IN.  The comparators like
\* and in are in no filter drawn.
ComparesValue(f, c) ==
    IF f.field = "assignees"
    THEN /\ ~c.null
         /\ IF f.comparator = taskFilterComparatorEquals
            THEN c.val \in f.value
            ELSE IF f.comparator = taskFilterComparatorNotEquals
            THEN c.val \notin f.value
            ELSE FALSE
    ELSE
        /\ ~c.null
        /\ IF f.comparator = taskFilterComparatorEquals THEN c.val = f.value
           ELSE IF f.comparator = taskFilterComparatorNotEquals
           THEN c.val # f.value
           ELSE IF f.comparator = taskFilterComparatorGreater
           THEN c.val > f.value
           ELSE IF f.comparator = taskFilterComparatorGreateEquals
           THEN c.val >= f.value
           ELSE IF f.comparator = taskFilterComparatorLess
           THEN c.val < f.value
           ELSE IF f.comparator = taskFilterComparatorLessEquals
           THEN c.val <= f.value
           ELSE FALSE

Compares(f, row) == ComparesValue(f, Column(row, f.field))

\* A variant that never adds the null and zero conditions
getFilterCondNoNulls(f, includeNulls, row) == Compares(f, row)

\* getFilterCond(f, includeNulls), as the condition holds of a row
getFilterCond(f, includeNulls, row) ==
    \/ Compares(f, row)
    \/ includeNulls /\ Column(row, f.field).null
    \/ includeNulls /\ f.isNumeric /\ Column(row, f.field) = Val(0)

\* Whether getFilterCond returns a condition: the switch sets none for a
\* comparator it has no case for, and builder.Or, builder.And and Where skip
\* a condition that is nil or empty.
HasCond(f, includeNulls) ==
    \/ includeNulls
    \/ f.comparator \in {taskFilterComparatorEquals,
                         taskFilterComparatorNotEquals,
                         taskFilterComparatorGreater,
                         taskFilterComparatorGreateEquals,
                         taskFilterComparatorLess,
                         taskFilterComparatorLessEquals}

\* getFilterCond on a filter of a collection, as the condition holds of a
\* row of the collection
getFilterCondRelated(f, includeNulls, c) ==
    \/ ComparesValue(f, c)
    \/ includeNulls /\ c.null
    \/ includeNulls /\ f.isNumeric /\ c = Val(0)

\* A variant that joins the assignees as it joins the other collections
RelatedCondAlike(table, filters, concat, includeNulls, row) ==
    LET conds == {i \in 1..Len(filters) :
                    RelatedTable(filters[i].field) = table}
    IN  \E c \in RelatedRows(row, table) :
            IF concat = filterConcatOr
            THEN \E i \in conds :
                    getFilterCondRelated(filters[i], includeNulls, c)
            ELSE IF concat = filterConcatAnd
            THEN \A i \in conds :
                    getFilterCondRelated(filters[i], includeNulls, c)
            ELSE TRUE

\* The condition of a collection: the task has a row in it that satisfies
\* the conditions of the filters of the collection, joined by the
\* concatenation mode (getFilterCondForSeparateTable and, for the projects,
\* the same in place).  The assignees are looked up among the users, their
\* conditions joined by or, and the one condition "user_id in these users"
\* is what the concatenation mode gets.
RelatedCond(table, filters, concat, includeNulls, row) ==
    LET conds == {i \in 1..Len(filters) :
                    RelatedTable(filters[i].field) = table}
    IN  \E c \in RelatedRows(row, table) :
            IF table = "task_assignees"
            THEN concat \in {filterConcatOr, filterConcatAnd}
                    => \E i \in conds :
                          getFilterCondRelated(filters[i], includeNulls, c)
            ELSE IF concat = filterConcatOr
            THEN \E i \in conds :
                    getFilterCondRelated(filters[i], includeNulls, c)
            ELSE IF concat = filterConcatAnd
            THEN \A i \in conds :
                    getFilterCondRelated(filters[i], includeNulls, c)
            ELSE TRUE

\* A variant that joins the conditions as the expression wrote them
FilterCondAsWritten(filters, filterConcat, includeNulls, row) ==
    LET conds == {i \in 1..Len(filters) : HasCond(filters[i], includeNulls)}
    IN  IF conds = {} THEN TRUE
        ELSE IF \E i \in 2..Len(filters) : filters[i].join = filterConcatOr
        THEN \E i \in conds : getFilterCond(filters[i], includeNulls, row)
        ELSE \A i \in conds : getFilterCond(filters[i], includeNulls, row)

\* The filterCond of getRawTasksForProjects: the conditions of the filters
\* of task fields and one condition for every collection that has filters,
\* joined by the concatenation mode
FilterCond(filters, filterConcat, includeNulls, row) ==
    LET concat == IF filterConcat = "" THEN filterConcatOr ELSE filterConcat
        conds == {i \in 1..Len(filters) :
                    /\ RelatedTable(filters[i].field) = ""
                    /\ HasCond(filters[i], includeNulls)}
        tables == {RelatedTable(filters[i].field) : i \in 1..Len(filters)}
                      \ {""}
    IN  IF conds = {} /\ tables = {} THEN TRUE
        ELSE IF concat = filterConcatOr
        THEN \/ \E i \in conds : getFilterCond(filters[i], includeNulls, row)
             \/ \E t \in tables :
                    RelatedCond(t, filters, concat, includeNulls, row)
        ELSE IF concat = filterConcatAnd
        THEN /\ \A i \in conds : getFilterCond(filters[i], includeNulls, row)
             /\ \A t \in tables :
                    RelatedCond(t, filters, concat, includeNulls, row)
        ELSE TRUE

\* A row of the tasks with the rows of the collections that belong to it
TaskRow(id, project, priority, done) ==
    [id |-> id, project_id |-> Val(project), priority |-> priority,
     done |-> done, reminders |-> {}, assignees |-> {}, labels |-> {},
     namespace_id |-> Val(1)]

\* The rows of the task table a query of task fields may meet
Rows ==
    {TaskRow(1, 1, priority, done) :
        priority \in {Null, Val(0), Val(1), Val(3), Val(5)},
        done \in {Val(0), Val(1)}}

\* The project that stands for the favorite tasks, and the kind of a
\* favorite that is a task
FavoritesPseudoProjectID == 0 - 1
FavoriteKindTask == 1

\* The users, and the projects getRawProjectsForUser gives for each
Users == {1, 2}
getRawProjectsForUser(s, user) == s.visible[user]

\* A variant that takes the favorites of everybody
ProjectCondAnyFavorite(s, projects, a, row) ==
    LET projectIDs == projects \ {FavoritesPseudoProjectID}
    IN  /\ projectIDs # {} => row.project_id.val \in projectIDs
        /\ FavoritesPseudoProjectID \in projects
              => /\ \E fav \in s.favorites :
                       /\ fav.kind = FavoriteKindTask
                       /\ fav.entity_id = row.id
                 /\ row.project_id.val \in getRawProjectsForUser(s, a)

\* The projectCond of getRawTasksForProjects: the task is in one of the
\* projects asked for, when any but the favorites is asked for; when the
\* favorites are asked for it also is a favorite task of the caller and in
\* a project the caller has.
ProjectCond(s, projects, a, row) ==
    LET projectIDs == projects \ {FavoritesPseudoProjectID}
    IN  /\ projectIDs # {} => row.project_id.val \in projectIDs
        /\ FavoritesPseudoProjectID \in projects
              => /\ \E fav \in s.favorites :
                       /\ fav.user_id = a
                       /\ fav.kind = FavoriteKindTask
                       /\ fav.entity_id = row.id
                 /\ row.project_id.val \in getRawProjectsForUser(s, a)

ErrNoSuchColumn == "no such column"

\* getRawTasksForProjects(s, projects, a, opts) without search, sorting and
\* paging: the rows it selects among the tasks of the store s.  A like on
\* the assignees is refused; a condition on the column of a filter without
\* a field is refused by the database.
getRawTasksForProjects(s, projects, a, filters, filterConcat, includeNulls) ==
    IF projects = {} THEN [err |-> NoError, tasks |-> {}]
    ELSE IF \E i \in 1..Len(filters) :
               /\ filters[i].field = "assignees"
               /\ filters[i].comparator = taskFilterComparatorLike
    THEN [err |-> ErrInvalidTaskFilterValue, tasks |-> {}]
    ELSE IF \E i \in 1..Len(filters) :
               HasCond(filters[i], includeNulls) /\ filters[i].field = ""
    THEN [err |-> ErrNoSuchColumn, tasks |-> {}]
    ELSE [err |-> NoError,
          tasks |-> {row \in s.tasks :
                       /\ ProjectCond(s, projects, a, row)
                       /\ FilterCond(filters, filterConcat, includeNulls,
                                     row)}]

\* The store of a query of task fields: every row, in project 1
FilterStore ==
    [tasks |-> Rows, favorites |-> {}, visible |-> [u \in Users |-> {1}]]

\* A term and a group of a parsed expression
Term(join, field, op, value) ==
    [isGroup |-> FALSE, join |-> join, field |-> field, op |-> op,
     value |-> value, items |-> <<>>]

Group(join, items) ==
    [isGroup |-> TRUE, join |-> join, field |-> "", op |-> "",
     value |-> "", items |-> items]

\* The terms drawn: a number field, a bool field and a name that is no field;
\* two signs with a comparator and one without; a number, a bool that is no
\* number, and a number that is also a bool.
Terms ==
    {Term(join, field, op, value) :
        join \in {filterConcatAnd, filterConcatOr},
        field \in {"priority", "done", "foo"},
        op \in {"=", ">=", "!~"},
        value \in {"3", "false", "1"}}

\* The groups drawn: one term in parentheses
Groups ==
    {Group(join, <<Term(filterConcatAnd, "priority", op, "3")>>) :
        join \in {filterConcatAnd, filterConcatOr}, op \in {"=", "!~"}}

\* The sequences over S of length at most n
SeqsUpTo(S, n) == UNION {[1..k -> S] : k \in 0..n}

\* The calls drawn: a parsed expression and the concatenation mode
FilterInputs ==
    {[fn |-> "input", parsedFilter |-> e, filterConcat |-> c,
      out |-> [err |-> NoError, filters |-> <<>>, reached |-> {},
               tasks |-> [b \in BOOLEAN |->
                            [err |-> NoError, tasks |-> {}]]]] :
        e \in SeqsUpTo(Terms \cup Groups, MaxTerms),
        c \in {"", filterConcatAnd, filterConcatOr}}

\* A query: the filters are parsed; when that succeeds every filter goes to
\* getFilterCond and the rows are selected, here without and with nulls.
CallFilter ==
    /\ call.fn = "input"
    /\ \E parsed \in {getTaskFiltersByCollections(call.parsedFilter)} :
         call' = [call EXCEPT
            !.fn = "filter",
            !.out = IF parsed.err # NoError
                    THEN [@ EXCEPT !.err = parsed.err]
                    ELSE [err |-> NoError,
                          filters |-> parsed.filters,
                          reached |-> {parsed.filters[i].comparator :
                                         i \in 1..Len(parsed.filters)},
                          tasks |-> [b \in BOOLEAN |->
                              getRawTasksForProjects(
                                  FilterStore, {1}, 1, parsed.filters,
                                  call.filterConcat, b)]]]
    /\ UNCHANGED <<tasks, reminders, nextID, now, last>>

InitFilter ==
    /\ tasks = <<>>
    /\ reminders = <<>>
    /\ nextID = 1
    /\ now = 1
    /\ last = Outcome("none", 0, NoError, NoRequest, "none", FALSE, 0, 0)
    /\ call \in FilterInputs

NextFilter == CallFilter

SpecFilter == InitFilter /\ [][NextFilter]_vars

-----------------------------------------------------------------------------
(* Queries with filters on the collections of a task *)

\* The tasks of the store: every choice of reminders (days), assignees
\* (usernames) and labels (ids) a task may have
RelatedRowsOfStore ==
    {[TaskRow(1, 1, Null, Val(0)) EXCEPT
         !.reminders = r, !.assignees = u, !.labels = l] :
        r \in SUBSET {1, 2}, u \in SUBSET {"a", "b"}, l \in SUBSET {1, 3}}

RelatedStore ==
    [tasks |-> RelatedRowsOfStore, favorites |-> {},
     visible |-> [u \in Users |-> {1}]]

\* The terms drawn: reminders on or from a day, an assignee, a label, and
\* the namespace
RelatedTerms ==
    {Term(filterConcatAnd, "reminders", op, value) :
        op \in {"=", ">="}, value \in {"day1", "day2"}}
    \cup {Term(filterConcatAnd, "assignees", "=", value) :
             value \in {"a", "b"}}
    \cup {Term(filterConcatAnd, "labels", "=", value) : value \in {"1", "3"}}
    \cup {Term(filterConcatAnd, "namespace", "=", "1")}

RelatedInputs ==
    {[fn |-> "input", parsedFilter |-> e, filterConcat |-> c,
      out |-> [err |-> NoError, filters |-> <<>>, reached |-> {},
               tasks |-> [b \in BOOLEAN |->
                            [err |-> NoError, tasks |-> {}]]]] :
        e \in SeqsUpTo(RelatedTerms, MaxRelatedTerms),
        c \in {"", filterConcatAnd, filterConcatOr}}

CallRelated ==
    /\ call.fn = "input"
    /\ \E parsed \in {getTaskFiltersByCollections(call.parsedFilter)} :
         call' = [call EXCEPT
            !.fn = "filter",
            !.out = IF parsed.err # NoError
                    THEN [@ EXCEPT !.err = parsed.err]
                    ELSE [err |-> NoError,
                          filters |-> parsed.filters,
                          reached |-> {parsed.filters[i].comparator :
                                         i \in 1..Len(parsed.filters)},
                          tasks |-> [b \in BOOLEAN |->
                              getRawTasksForProjects(
                                  RelatedStore, {1}, 1, parsed.filters,
                                  call.filterConcat, b)]]]
    /\ UNCHANGED <<tasks, reminders, nextID, now, last>>

InitRelated ==
    /\ tasks = <<>>
    /\ reminders = <<>>
    /\ nextID = 1
    /\ now = 1
    /\ last = Outcome("none", 0, NoError, NoRequest, "none", FALSE, 0, 0)
    /\ call \in RelatedInputs

NextRelated == CallRelated

SpecRelated == InitRelated /\ [][NextRelated]_vars

-----------------------------------------------------------------------------
(* Queries for the favorite tasks *)

FavoriteKindProject == 2

\* The tasks of the store: task 1 in project 1, task 2 in project 2, and so
\* on by turns
FavoriteRows ==
    {TaskRow(id, ((id - 1) % 2) + 1, Null, Val(0)) :
        id \in 1..MaxFavoriteTasks}

\* The favorites a store may hold: any task of any user, and project 1 of
\* user 1, whose id is the id of a task
Favorites ==
    {[user_id |-> u, entity_id |-> id, kind |-> FavoriteKindTask] :
        u \in Users, id \in 1..MaxFavoriteTasks}
    \cup {[user_id |-> 1, entity_id |-> 1, kind |-> FavoriteKindProject]}

\* The calls drawn: a store, the projects asked for and the caller
FavoriteInputs ==
    {[fn |-> "input",
      s |-> [tasks |-> FavoriteRows, favorites |-> favs, visible |-> vis],
      projects |-> ps, a |-> a,
      out |-> [err |-> NoError, tasks |-> {}]] :
        favs \in SUBSET Favorites,
        vis \in [Users -> SUBSET {1, 2}],
        ps \in SUBSET {FavoritesPseudoProjectID, 1, 2},
        a \in Users}

CallFavorites ==
    /\ call.fn = "input"
    /\ call' = [call EXCEPT
          !.fn = "getRawTasksForProjects",
          !.out = getRawTasksForProjects(
                      call.s, call.projects, call.a, <<>>, "", FALSE)]
    /\ UNCHANGED <<tasks, reminders, nextID, now, last>>

InitFavorites ==
    /\ tasks = <<>>
    /\ reminders = <<>>
    /\ nextID = 1
    /\ now = 1
    /\ last = Outcome("none", 0, NoError, NoRequest, "none", FALSE, 0, 0)
    /\ call \in FavoriteInputs

NextFavorites == CallFavorites

SpecFavorites == InitFavorites /\ [][NextFavorites]_vars

-----------------------------------------------------------------------------
(* Direct calls of getNativeValueForTaskField *)

\* Names of attributes of Task, one or more of every type it has, and a name
\* that is no attribute
CoerceFields ==
    {"priority", "done", "title", "percent_done", "due_date",
     "reminder_dates", "reminders", "assignees", "labels", "repeat_mode",
     "related_tasks", "subscription", "created_by", "foo"}

CoerceLiterals == {"1", "x", "day1", "1,x", "true"}

CoerceInputs ==
    {[fn |-> "input", fieldName |-> f, comparator |-> c, value |-> v,
      out |-> [err |-> NoError, value |-> 0]] :
        f \in CoerceFields,
        c \in {taskFilterComparatorEquals, taskFilterComparatorIn},
        v \in CoerceLiterals}

CallCoerce ==
    /\ call.fn = "input"
    /\ \E native \in {getNativeValueForTaskField(
                         call.fieldName, call.comparator, call.value)} :
         call' = [call EXCEPT
            !.fn = "getNativeValueForTaskField",
            !.out = [err |-> native.err, value |-> native.value]]
    /\ UNCHANGED <<tasks, reminders, nextID, now, last>>

InitCoerce ==
    /\ tasks = <<>>
    /\ reminders = <<>>
    /\ nextID = 1
    /\ now = 1
    /\ last = Outcome("none", 0, NoError, NoRequest, "none", FALSE, 0, 0)
    /\ call \in CoerceInputs

NextCoerce == CallCoerce

SpecCoerce == InitCoerce /\ [][NextCoerce]_vars

-----------------------------------------------------------------------------
(* Properties of the recurrence engine *)

\* updateDone ran on a false -> true transition of a task of the given mode
Marked(mode) ==
    /\ call.fn = "updateDone"
    /\ ~call.oldTask.Done
    /\ call.newTask.Done
    /\ call.oldTask.RepeatMode = mode

\* C3: fixed-interval policy, interval I > 0, old due date T # 0: the new due
\* date is T + k*I for the smallest k >= 1 with T + k*I > now; so it lies
\* after now, is congruent to T modulo I, and the task is not done.
C3_FixedIntervalDueDate ==
    (Marked(TaskRepeatModeDefault) /\ call.oldTask.RepeatAfter > 0
        /\ call.oldTask.DueDate # 0)
    => LET T == call.oldTask.DueDate
           I == call.oldTask.RepeatAfter
           D == call.out.DueDate
       IN  /\ \E k \in 1..(MaxNow + MaxDate + 2) :
                /\ D = T + k * I
                /\ T + k * I > call.now
                /\ (k = 1 \/ T + (k - 1) * I <= call.now)
           /\ D > call.now
           /\ (D - T) % I = 0
           /\ ~call.out.Done

\* the catch-up loop ran at least once: the first added interval was not enough
C3_Witness ==
    /\ Marked(TaskRepeatModeDefault)
    /\ call.oldTask.RepeatAfter > 0
    /\ call.oldTask.DueDate # 0
    /\ call.oldTask.DueDate + call.oldTask.RepeatAfter <= call.now
    /\ call.out.DueDate > call.now

\* C4: fixed-interval policy, two or more reminders: the differences between
\* the reminders are the same after the task was marked done.
C4_ReminderOffsetsPreserved ==
    (Marked(TaskRepeatModeDefault) /\ call.oldTask.RepeatAfter > 0
        /\ Len(call.oldTask.Reminders) >= 2)
    => /\ Len(call.out.Reminders) = Len(call.oldTask.Reminders)
       /\ \A i, j \in 1..Len(call.oldTask.Reminders) :
            call.out.Reminders[j].Reminder - call.out.Reminders[i].Reminder
            = call.oldTask.Reminders[j].Reminder
              - call.oldTask.Reminders[i].Reminder

Min(a, b) == IF a < b THEN a ELSE b

\* the day in the month after t's month, the day of month clamped to its length
ClampedNextMonth(t) ==
    LET y == YearOf(t)
        m == MonthOf(t)
        ny == IF m = 12 THEN y + 1 ELSE y
        nm == IF m = 12 THEN 1 ELSE m + 1
    IN  Date(ny, nm, Min(DayOf(t), DaysIn(ny, nm)))

\* C5: monthly policy: the due date moves once, into the month after the old
\* due date's month, the day of month clamped to that month's length.
C5_MonthlyClamped ==
    (Marked(TaskRepeatModeMonth) /\ call.oldTask.DueDate # 0)
    => call.out.DueDate = ClampedNextMonth(call.oldTask.DueDate)

\* C6: from-current-date policy, interval I > 0: due' = now + I; reminder i
\* becomes now + I + (r_i - r_min); with a due date, start and end keep their
\* difference to the due date; without one, start' = now + I and, when both
\* are set, end' = start' + (end - start).
C6_FromCurrentDate ==
    (Marked(TaskRepeatModeFromCurrentDate) /\ call.oldTask.RepeatAfter > 0)
    => LET o == call.oldTask
           n == call.out
           I == o.RepeatAfter
           rmin == o.Reminders[1].Reminder
       IN  /\ o.DueDate # 0 => n.DueDate = call.now + I
           /\ Len(n.Reminders) = Len(o.Reminders)
           /\ \A i \in 1..Len(o.Reminders) :
                n.Reminders[i].Reminder
                = call.now + I + (o.Reminders[i].Reminder - rmin)
           /\ (o.DueDate # 0 /\ o.StartDate # 0)
                => n.StartDate - n.DueDate = o.StartDate - o.DueDate
           /\ (o.DueDate # 0 /\ o.EndDate # 0)
                => n.EndDate - n.DueDate = o.EndDate - o.DueDate
           /\ (o.DueDate = 0 /\ o.StartDate # 0)
                => n.StartDate = call.now + I
           /\ (o.DueDate = 0 /\ o.StartDate # 0 /\ o.EndDate # 0)
                => n.EndDate = n.StartDate + (o.EndDate - o.StartDate)
           /\ ~n.Done

C6_Witness ==
    /\ Marked(TaskRepeatModeFromCurrentDate)
    /\ call.oldTask.RepeatAfter > 0
    /\ Len(call.oldTask.Reminders) >= 2
    /\ call.oldTask.DueDate # 0
    /\ call.oldTask.StartDate # 0
    /\ call.oldTask.EndDate # 0
    /\ call.oldTask.StartDate # call.oldTask.DueDate
    /\ call.out.DueDate = call.now + call.oldTask.RepeatAfter

-----------------------------------------------------------------------------
(* Properties of Task.Create and Task.Update *)

\* The last operation was a successful Task.Update.
Updated ==
    /\ last.op = "Update"
    /\ last.err = NoError
    /\ last.id \in DOMAIN tasks

\* The step is a successful Task.Update of the stored task id.
UpdateOf(id) ==
    /\ last'.op = "Update"
    /\ last'.err = NoError
    /\ last'.id = id

\* C1: every stored task that is done has a done timestamp, and every stored
\* task that is not done has none.
C1_DoneIffDoneAt ==
    \A id \in DOMAIN tasks : tasks[id].Done <=> tasks[id].DoneAt # 0

\* C2: a stored task with a repeat interval that is not done stays not done
\* when a successful update asks for done, whatever its repeat mode is.
C2_RepeatingNeverStaysDone ==
    [][\A id \in DOMAIN tasks :
        (UpdateOf(id) /\ tasks[id].RepeatAfter > 0 /\ ~tasks[id].Done
            /\ tasks[id].RepeatMode \in RepeatModes /\ last'.req.Done)
        => ~tasks'[id].Done]_vars

\* a task of the from-current-date mode was marked done and is not done
C2_Witness ==
    /\ Updated
    /\ last.req.Done
    /\ last.recur = "current"
    /\ ~tasks[last.id].Done

\* C7: an update that takes a stored task from done to not done stores no done
\* timestamp and runs no recurrence: the due, start and end date and the
\* reminders stored afterwards are the ones of the request.
C7_UnmarkKeepsRequestDates ==
    [][\A id \in DOMAIN tasks :
        (UpdateOf(id) /\ tasks[id].Done /\ ~tasks'[id].Done)
        => /\ tasks'[id].DoneAt = 0
           /\ tasks'[id].DueDate = last'.req.DueDate
           /\ tasks'[id].StartDate = last'.req.StartDate
           /\ tasks'[id].EndDate = last'.req.EndDate
           /\ {r.Reminder : r \in reminders'[id]}
              = {last'.req.Reminders[i].Reminder :
                    i \in 1..Len(last'.req.Reminders)}]_vars

\* a done task with a repeat interval was unmarked by a request that carries
\* dates, a reminder and the done timestamp of the task
C7_Witness ==
    /\ Updated
    /\ last.unmarked
    /\ last.req.DoneAt # 0
    /\ last.req.DueDate # 0
    /\ Len(last.req.Reminders) > 0
    /\ last.req.RepeatAfter > 0
    /\ ~tasks[last.id].Done
    /\ tasks[last.id].DoneAt = 0

\* C8: a stored task without a repeat interval that is not done, of any repeat
\* mode, is done and in the done bucket after a successful update that moves
\* it into the done bucket of its project.  The update is one that gives the
\* task no repeat interval either.
C8_MovedToDoneBucketIsDone ==
    [][\A id \in DOMAIN tasks :
        LET doneBucket == getDoneBucketForProject(tasks[id].ProjectID).ID
        IN  (UpdateOf(id) /\ tasks[id].RepeatAfter = 0 /\ ~tasks[id].Done
                /\ tasks[id].RepeatMode \in RepeatModes
                /\ doneBucket # 0
                /\ last'.req.BucketID = doneBucket
                /\ last'.req.RepeatAfter = 0
                /\ tasks[id].BucketID # doneBucket)
            => /\ tasks'[id].Done
               /\ tasks'[id].BucketID = doneBucket]_vars

\* C9: a stored task with a repeat interval that is not done is, after a
\* successful update whose target is the done bucket of its project, not
\* done, past a run of its recurrence, and in the bucket it was in before.
C9_RepeatingStaysInBucket ==
    [][\A id \in DOMAIN tasks :
        LET doneBucket == getDoneBucketForProject(tasks[id].ProjectID).ID
        IN  (UpdateOf(id) /\ tasks[id].RepeatAfter > 0 /\ ~tasks[id].Done
                /\ doneBucket # 0
                /\ last'.target = doneBucket
                /\ tasks[id].BucketID # doneBucket)
            => /\ ~tasks'[id].Done
               /\ last'.recur # "none"
               /\ tasks'[id].BucketID = tasks[id].BucketID
               /\ tasks'[id].BucketID # doneBucket]_vars

\* The update of task id asks for bucket b, and b is the bucket the task is
\* headed for: the request is not one that marks the task done and so sends it
\* to the done bucket instead.
AsksFor(id, b) ==
    /\ last'.op = "Update"
    /\ last'.id = id
    /\ last'.req.BucketID = b
    /\ (last'.req.Done /\ ~tasks[id].Done)
        => b = getDoneBucketForProject(tasks[id].ProjectID).ID

\* C10: while a bucket with a limit L > 0 holds L tasks, an update that moves
\* a task of another bucket into it fails with ErrBucketLimitExceeded and
\* changes no task, and an update of a task of this bucket that asks for this
\* bucket succeeds.
C10_BucketLimit ==
    [][\A id \in DOMAIN tasks, b \in BucketIDs :
        (AsksFor(id, b) /\ Buckets[b].Limit > 0
            /\ Buckets[b].ProjectID = tasks[id].ProjectID
            /\ TaskCount(b) = Buckets[b].Limit)
        => /\ tasks[id].BucketID # b
                => (last'.err = ErrBucketLimitExceeded /\ tasks' = tasks)
           /\ tasks[id].BucketID = b => last'.err = NoError]_vars

\* the move of a task into a full bucket was refused
C10_Witness ==
    /\ last.op = "Update"
    /\ last.err = ErrBucketLimitExceeded
    /\ last.id \in DOMAIN tasks
    /\ last.req.BucketID # 0
    /\ last.req.BucketID # tasks[last.id].BucketID
    /\ ~last.req.Done
    /\ Buckets[last.req.BucketID].Limit > 0
    /\ TaskCount(last.req.BucketID) = Buckets[last.req.BucketID].Limit

-----------------------------------------------------------------------------
(* Properties of the positions *)

\* The step is a successful Task.Create.
Created ==
    /\ last'.op = "Create"
    /\ last'.err = NoError
    /\ last'.id \in DOMAIN tasks'

\* position = index * 2^16
IsDefaultPosition(position, index) ==
    position[1] = 60 * index /\ position[2] = 0

\* C11: a task created without a position gets the list position and the
\* board position index * 2^16, which lies above the default position of
\* every task created before it in the project.
C11_DefaultPositionsIncrease ==
    [][Created =>
        LET new == tasks'[last'.id]
            before == {i \in DOMAIN tasks :
                          tasks[i].ProjectID = new.ProjectID}
        IN  /\ \A i \in before : tasks[i].Index < new.Index
            /\ last'.req.Position = ZeroPosition =>
                /\ IsDefaultPosition(new.Position, new.Index)
                /\ \A i \in before :
                     IsDefaultPosition(tasks[i].Position, tasks[i].Index)
                     => PosLess(tasks'[i].Position, new.Position)
            /\ last'.req.KanbanPosition = ZeroPosition =>
                /\ IsDefaultPosition(new.KanbanPosition, new.Index)
                /\ \A i \in before :
                     IsDefaultPosition(tasks[i].KanbanPosition,
                                       tasks[i].Index)
                     => PosLess(tasks'[i].KanbanPosition,
                                new.KanbanPosition)]_vars

\* two tasks created one after the other without positions hold increasing
\* default positions
C11_Witness ==
    /\ last.op = "Create"
    /\ last.err = NoError
    /\ last.id = 2
    /\ last.req.Position = ZeroPosition
    /\ last.req.KanbanPosition = ZeroPosition
    /\ tasks[1].ProjectID = tasks[2].ProjectID
    /\ IsDefaultPosition(tasks[1].Position, 1)
    /\ IsDefaultPosition(tasks[2].Position, 2)
    /\ PosLess(tasks[1].KanbanPosition, tasks[2].KanbanPosition)

\* The step is a successful Task.Update of task id that stores the position
\* the request carries in the given column, below 0.1.
StoresSmall(id, column) ==
    /\ UpdateOf(id)
    /\ BelowThreshold(last'.req[column])

\* The position of task i in the column just before the rebalance that the
\* update of task id runs.
PriorPosition(id, i, column) ==
    IF i = id THEN last'.req[column] ELSE tasks[i][column]

\* The tasks of the set hold, in the column, the positions (2^32 / N) * k for
\* k = 1..N, in the order of their positions before the rebalance.
EvenlySpaced(id, members, column) ==
    LET N == Cardinality(members)
    IN  /\ \A i \in members :
             /\ tasks'[i][column][2] = 0
             /\ \E k \in 1..N : tasks'[i][column][1] * N = 60 * 65536 * k
        /\ \A i, j \in members :
             i # j => tasks'[i][column] # tasks'[j][column]
        /\ \A i, j \in members :
             PosLess(PriorPosition(id, i, column),
                     PriorPosition(id, j, column))
             => PosLess(tasks'[i][column], tasks'[j][column])

\* C12: an update that stores a list position below 0.1 leaves the N tasks of
\* the project at the list positions (2^32 / N) * k, k = 1..N, in the order
\* of their positions before the rebalance; an update that stores a board
\* position below 0.1 does the same to the board positions of the tasks of
\* the bucket.
C12_RebalanceEvenlySpaced ==
    [][\A id \in DOMAIN tasks :
        /\ StoresSmall(id, "Position") =>
             EvenlySpaced(id,
                 {i \in DOMAIN tasks' :
                     tasks'[i].ProjectID = tasks'[id].ProjectID},
                 "Position")
        /\ StoresSmall(id, "KanbanPosition") =>
             EvenlySpaced(id,
                 {i \in DOMAIN tasks' :
                     tasks'[i].BucketID = tasks'[id].BucketID},
                 "KanbanPosition")]_vars

\* an update stored a list position below 0.1 in a project of two tasks, and
\* the task went below the other one
C12_Witness ==
    /\ Updated
    /\ last.req.Position = SmallPosition
    /\ Cardinality(DOMAIN tasks) >= 2
    /\ \E i \in DOMAIN tasks :
         /\ i # last.id
         /\ tasks[i].ProjectID = tasks[last.id].ProjectID
         /\ PosLess(tasks[last.id].Position, tasks[i].Position)

\* C13: after a successful Task.Create or Task.Update the list position and
\* the board position of the saved task are not below 0.1.
C13_SavedPositionsNotSmall ==
    ((last.op = "Create" \/ last.op = "Update") /\ last.err = NoError
        /\ last.id \in DOMAIN tasks)
    => /\ ~BelowThreshold(tasks[last.id].Position)
       /\ ~BelowThreshold(tasks[last.id].KanbanPosition)

-----------------------------------------------------------------------------
(* Properties of the reminders *)

Anchors ==
    {ReminderRelationDueDate, ReminderRelationStartDate,
     ReminderRelationEndDate}

\* The task date a reminder is anchored to
AnchorDate(task, relativeTo) ==
    IF relativeTo = ReminderRelationDueDate THEN task.DueDate
    ELSE IF relativeTo = ReminderRelationStartDate THEN task.StartDate
    ELSE task.EndDate

\* The trigger instant of a reminder of a task: derived from the anchor when
\* the reminder has one, the trigger it carries otherwise.
Instant(task, reminder) ==
    IF reminder.RelativeTo \in Anchors
    THEN IF AnchorDate(task, reminder.RelativeTo) # 0
         THEN AnchorDate(task, reminder.RelativeTo) + reminder.RelativePeriod
         ELSE 0
    ELSE reminder.Reminder

\* C14: every stored reminder with an anchor has the trigger anchor date +
\* relative period when the task has that date, and a zero trigger otherwise.
C14_AnchoredTriggerDerived ==
    \A id \in DOMAIN tasks : \A r \in reminders[id] :
        r.RelativeTo \in Anchors => r.Reminder = Instant(tasks[id], r)

\* a request carried the trigger day 1 for a reminder one day after the due
\* date day 2, and the reminder is stored with the trigger day 3
C14_Witness ==
    /\ Updated
    /\ tasks[last.id].DueDate = 2
    /\ \E i \in 1..Len(last.req.Reminders) :
         /\ last.req.Reminders[i].RelativeTo = ReminderRelationDueDate
         /\ last.req.Reminders[i].Reminder = 1
    /\ \E r \in reminders[last.id] :
         r.RelativeTo = ReminderRelationDueDate /\ r.Reminder = 3

\* The step is a successful Task.Create or Task.Update of task id.
SavedOf(id) ==
    /\ last'.op \in {"Create", "Update"}
    /\ last'.err = NoError
    /\ last'.id = id

\* The reminders a request submits: its ReminderDates when it carries them,
\* its Reminders otherwise.
Submitted(req) ==
    IF req.HasReminderDates
    THEN [i \in 1..Len(req.ReminderDates) |-> NoReminder(req.ReminderDates[i])]
    ELSE req.Reminders

\* No two stored reminders of task id share a trigger, and the stored triggers
\* are the instants of the given reminders.
StoredOnePerInstant(id, rems) ==
    /\ \A r1, r2 \in reminders'[id] : r1.Reminder = r2.Reminder => r1 = r2
    /\ {r.Reminder : r \in reminders'[id]}
       = {Instant(tasks'[id], rems[i]) : i \in 1..Len(rems)}

\* C15 as stated: after a successful Task.Create or Task.Update the stored
\* reminders of the task are one per distinct trigger instant of the
\* submitted reminders, and nothing else.
C15_OnePerSubmittedInstant ==
    [][\A id \in DOMAIN tasks' :
        SavedOf(id) => StoredOnePerInstant(id, Submitted(last'.req))]_vars

\* The first day after now that lies a positive number of intervals after d
AdvancedPastNow(d, interval) ==
    CHOOSE x \in (d + 1)..(d + interval * (now + MaxDay + 1)) :
        /\ x > now
        /\ (x - d) % interval = 0
        /\ (x - interval <= now \/ x = d + interval)

\* The stored reminders of task id, each advanced by the repeat interval of
\* the task until it lies after now
StoredAdvanced(id) ==
    LET rows == RowsAscending(reminders[id])
    IN  [i \in 1..Len(rows) |->
            [rows[i] EXCEPT
                !.Reminder = AdvancedPastNow(@, tasks[id].RepeatAfter)]]

\* C15, amended: the stored reminders are one per distinct trigger instant of
\* the reminders the operation saves: the submitted ones, or, when the update
\* marks a repeating task done and submits no ReminderDates, the reminders
\* stored before, advanced by the fixed-interval policy.
C15_OnePerSavedInstant ==
    [][\A id \in DOMAIN tasks' :
        SavedOf(id) =>
            IF last'.recur = "default" /\ ~last'.req.HasReminderDates
            THEN StoredOnePerInstant(id, StoredAdvanced(id))
            ELSE StoredOnePerInstant(id, Submitted(last'.req))]_vars

\* two submitted reminders fell on one instant and one row is stored
C15_Witness ==
    /\ Updated
    /\ last.recur = "none"
    /\ Len(last.req.Reminders) = 2
    /\ ~last.req.HasReminderDates
    /\ Cardinality(reminders[last.id]) = 1

\* The request submits a reminder with a relative period and no anchor.
SubmitsUnanchored(req) ==
    \E i \in 1..Len(Submitted(req)) :
        /\ Submitted(req)[i].RelativePeriod # 0
        /\ Submitted(req)[i].RelativeTo \notin Anchors

\* C16 as stated: a Task.Create or Task.Update that submits a reminder with a
\* relative period and no anchor fails with ErrReminderRelativeToMissing and
\* leaves the task without reminder rows.
C16_UnanchoredPeriodFails ==
    [][(last'.op \in {"Create", "Update"} /\ SubmitsUnanchored(last'.req))
        => /\ last'.err = ErrReminderRelativeToMissing
           /\ last'.id \in DOMAIN reminders' => reminders'[last'.id] = {}]_vars

\* C16, amended: the same for an operation that gets as far as the update of
\* the reminders, unless the update marks a repeating task done and so saves
\* the stored reminders instead of the submitted ones.
C16_SavedUnanchoredPeriodFails ==
    [][(last'.op \in {"Create", "Update"} /\ SubmitsUnanchored(last'.req)
            /\ last'.err \in {NoError, ErrReminderRelativeToMissing}
            /\ last'.recur = "none")
        => /\ last'.err = ErrReminderRelativeToMissing
           /\ last'.id \in DOMAIN reminders'
           /\ reminders'[last'.id] = {}]_vars

\* an update with an unanchored relative period was refused
C16_Witness ==
    /\ last.op = "Update"
    /\ last.err = ErrReminderRelativeToMissing
    /\ SubmitsUnanchored(last.req)
    /\ reminders[last.id] = {}

-----------------------------------------------------------------------------
(* Properties of the filters *)

Filtered == call.fn = "filter"

SupportedComparators ==
    {"=", "!=", ">", ">=", "<", "<=", "like", "in"}

\* C17: every filter that reaches getFilterCond carries a comparator of the
\* fixed set = != > >= < <= like in, also when the expression has groups in
\* parentheses: an expression with any other comparator fails to parse.
C17_CompiledComparatorsSupported ==
    Filtered /\ call.out.err = NoError
        => call.out.reached \subseteq SupportedComparators

\* What the claims say of a term, apart from the code: the signs with a
\* comparator, the names that are task attributes, the literals of their type
SupportedSign(item) == item.op \in {"=", ">="}

KnownAttribute(item) == item.field \in {"priority", "done"}

Coercible(item) ==
    \/ item.field = "priority" /\ item.value \in {"1", "3"}
    \/ item.field = "done" /\ item.value \in {"1", "false"}

RECURSIVE WellFormed(_)
WellFormed(item) ==
    IF item.isGroup
    THEN \A i \in 1..Len(item.items) : WellFormed(item.items[i])
    ELSE SupportedSign(item) /\ KnownAttribute(item) /\ Coercible(item)

\* The terms of the expression that are the first to fail and fail after
\* their sign was accepted
FirstFailingTerms ==
    {i \in 1..Len(call.parsedFilter) :
        /\ \A j \in 1..(i - 1) : WellFormed(call.parsedFilter[j])
        /\ ~call.parsedFilter[i].isGroup
        /\ SupportedSign(call.parsedFilter[i])
        /\ ~WellFormed(call.parsedFilter[i])}

\* C18: a term whose field is no task attribute fails with the invalid-field
\* error, a term whose literal cannot be coerced to the type of its field
\* fails with the invalid-filter-value error, and neither error stands for
\* the other.
C18_FieldAndValueErrorsDistinct ==
    Filtered =>
        \A i \in FirstFailingTerms :
            /\ ~KnownAttribute(call.parsedFilter[i])
                   => call.out.err = ErrInvalidTaskField
            /\ KnownAttribute(call.parsedFilter[i])
                   => call.out.err = ErrInvalidTaskFilterValue

\* The expression is one or more terms "priority = n" joined by and
NumericEqualityTerms ==
    /\ Len(call.parsedFilter) >= 1
    /\ \A i \in 1..Len(call.parsedFilter) :
          /\ ~call.parsedFilter[i].isGroup
          /\ call.parsedFilter[i].field = "priority"
          /\ call.parsedFilter[i].op = "="
          /\ call.parsedFilter[i].join = filterConcatAnd

NullOrZeroPriority ==
    {row \in Rows : row.priority.null \/ row.priority.val = 0}

Literal(item) ==
    IF item.value = "3" THEN 3 ELSE IF item.value = "1" THEN 1 ELSE 0

\* The predicate of a term, as the expression reads
TermHolds(item, row) ==
    LET c == IF item.field = "priority" THEN row.priority ELSE row.done
    IN  /\ ~c.null
        /\ IF item.op = "=" THEN c.val = Literal(item)
           ELSE c.val >= Literal(item)

FlatFilter ==
    /\ Len(call.parsedFilter) >= 1
    /\ \A i \in 1..Len(call.parsedFilter) : ~call.parsedFilter[i].isGroup

\* The filter "priority >= 3 and done = false" and the tasks of its project
ScenarioFilter ==
    <<Term(filterConcatAnd, "priority", ">=", "3"),
      Term(filterConcatAnd, "done", "=", "false")>>

ScenarioTask(priority, done) == TaskRow(1, 1, Val(priority), Val(done))

ScenarioTasks ==
    {ScenarioTask(1, 0), ScenarioTask(3, 0), ScenarioTask(5, 1)}

RECURSIVE LeavesHold(_, _)
LeavesHold(item, row) ==
    IF item.isGroup
    THEN \A i \in 1..Len(item.items) : LeavesHold(item.items[i], row)
    ELSE TermHolds(item, row)

\* C21: groups in parentheses are compiled with their terms: under the
\* concatenation mode and no task is returned that violates a leaf term of
\* a group of the expression.
C21_GroupLeavesCompiled ==
    (/\ Filtered /\ call.out.err = NoError
     /\ call.out.tasks[FALSE].err = NoError
     /\ call.filterConcat = filterConcatAnd)
        => \A row \in call.out.tasks[FALSE].tasks :
              \A i \in 1..Len(call.parsedFilter) :
                  call.parsedFilter[i].isGroup
                      => LeavesHold(call.parsedFilter[i], row)

\* The names that are attributes of the task
TaskAttributes == CoerceFields \ {"foo"}

\* C24: the coercion of a literal never panics: for every name of an
\* attribute of the task, of whatever type, and every literal it ends with a
\* value or with an error of the request.
C24_CoercionNeverPanics ==
    call.fn = "getNativeValueForTaskField" /\ call.fieldName \in TaskAttributes
        => call.out.err # Panic

\* The expression has two or more terms, all on one collection
TermsOfOneCollection(field) ==
    /\ Len(call.parsedFilter) >= 2
    /\ \A i \in 1..Len(call.parsedFilter) :
          call.parsedFilter[i].field = field

\* The rows of the collection of a field that a task has, and what a term on
\* the field says of one of them, as the expression reads
CollectionOf(row, field) ==
    IF field = "reminders" THEN row.reminders
    ELSE IF field = "assignees" THEN row.assignees
    ELSE row.labels

RelatedTermHolds(item, v) ==
    IF item.field = "reminders"
    THEN LET day == IF item.value = "day1" THEN 1 ELSE 2
         IN  IF item.op = "=" THEN v = day ELSE v >= day
    ELSE IF item.field = "labels"
    THEN v = (IF item.value = "1" THEN 1 ELSE 3)
    ELSE v = item.value

\* The tasks with a row in the collection that satisfies every term, and
\* those with a row that satisfies some term
WithRowForAll(field) ==
    {row \in RelatedStore.tasks :
        \E v \in CollectionOf(row, field) :
            \A i \in 1..Len(call.parsedFilter) :
                RelatedTermHolds(call.parsedFilter[i], v)}

WithRowForSome(field) ==
    {row \in RelatedStore.tasks :
        \E v \in CollectionOf(row, field) :
            \E i \in 1..Len(call.parsedFilter) :
                RelatedTermHolds(call.parsedFilter[i], v)}

JoinedByMode(field) ==
    (Filtered /\ call.out.err = NoError /\ TermsOfOneCollection(field))
        => /\ call.filterConcat = filterConcatAnd
                => call.out.tasks[FALSE].tasks = WithRowForAll(field)
           /\ call.filterConcat \in {filterConcatOr, ""}
                => call.out.tasks[FALSE].tasks = WithRowForSome(field)

FavoriteOf(user, row) ==
    [user_id |-> user, entity_id |-> row.id, kind |-> FavoriteKindTask]
        \in call.s.favorites

AskedForFavorites ==
    /\ call.fn = "getRawTasksForProjects"
    /\ FavoritesPseudoProjectID \in call.projects

\* C23: every task returned by a query whose projects contain the favorites
\* is a favorite task of the caller and lies in a project the caller has; a
\* task that only another user made a favorite, or that lies in a project
\* the caller does not have, is not returned.
C23_FavoritesOfCallerOnly ==
    AskedForFavorites
        => \A row \in call.out.tasks :
              /\ FavoriteOf(call.a, row)
              /\ row.project_id.val \in call.s.visible[call.a]

C23_Witness ==
    /\ AskedForFavorites
    /\ call.out.tasks # {}
    /\ \E row \in call.s.tasks \ call.out.tasks :
          /\ \E u \in Users \ {call.a} : FavoriteOf(u, row)
          /\ ~FavoriteOf(call.a, row)
          /\ row.project_id.val \in call.s.visible[call.a]

\* C30: fixed-interval policy, a task with a start date and an end date: the
\* end date keeps its difference to the start date when the task is marked
\* done, whatever now is, so a start date that is not after the end date
\* stays so.
C30_EndKeepsDifferenceToStart ==
    (/\ Marked(TaskRepeatModeDefault) /\ call.oldTask.RepeatAfter > 0
     /\ call.oldTask.StartDate # 0 /\ call.oldTask.EndDate # 0)
    => /\ call.out.EndDate - call.out.StartDate
            = call.oldTask.EndDate - call.oldTask.StartDate
       /\ call.oldTask.StartDate <= call.oldTask.EndDate
            => call.out.StartDate <= call.out.EndDate

\* C29: an update whose request carries the list position 0 stores 0 and so
\* rebalances the project: afterwards the positions of the project are
\* evenly spaced and the updated task lies below every task of the project
\* whose position was positive, whatever position it held before.
C29_ZeroPositionGoesFirst ==
    [][\A id \in DOMAIN tasks :
        (UpdateOf(id) /\ last'.req.Position = ZeroPosition) =>
            LET members == {i \in DOMAIN tasks' :
                               tasks'[i].ProjectID = tasks'[id].ProjectID}
            IN  /\ EvenlySpaced(id, members, "Position")
                /\ \A i \in members \ {id} :
                      PosLess(ZeroPosition, tasks[i].Position)
                          => PosLess(tasks'[id].Position,
                                     tasks'[i].Position)]_vars

\* the task created last was updated without a position and lies below the
\* task created first
C29_Witness ==
    /\ Updated
    /\ last.req.Position = ZeroPosition
    /\ last.id = 2
    /\ tasks[1].ProjectID = tasks[2].ProjectID
    /\ PosLess(tasks[2].Position, tasks[1].Position)

\* C26: after any sequence of successful creates and updates every bucket
\* with a limit above 0 holds at most as many tasks as its limit.
C26_BucketsWithinLimit ==
    \A b \in BucketIDs :
        Buckets[b].Limit > 0 => TaskCount(b) <= Buckets[b].Limit

\* C27: after any successful create or update, also one that changes the
\* project of the task, marks it done or sends a repeating task to a done
\* bucket, the bucket of every stored task is a bucket of the project of the
\* task; a request that would pair a task with a bucket of another project
\* fails with ErrBucketDoesNotBelongToProject.
C27_BucketOfOwnProject ==
    \A id \in DOMAIN tasks :
        /\ tasks[id].BucketID \in BucketIDs
        /\ Buckets[tasks[id].BucketID].ProjectID = tasks[id].ProjectID

\* C28: no two stored tasks of one project have the same index, whatever
\* creates, deletes and project-changing updates came before, also when two
\* creates for one project both read the highest index of the project before
\* either of them inserts its task.
C28_IndexUniquePerProject ==
    \A i \in DOMAIN tasks, j \in DOMAIN tasks :
        (i # j /\ tasks[i].ProjectID = tasks[j].ProjectID)
            => tasks[i].Index # tasks[j].Index

\* The rebalancing request has made its last write and no other request has
\* written since its save.
SerialRebalance ==
    /\ call.fn = "recalculateTaskPositions"
    /\ call.pc = "done"
    /\ call.others = 0

\* The tasks of the project are the N rows read, and the k-th row read holds
\* the list position (2^32 / N) * k.
EvenlySpacedAsRead ==
    LET N == Len(call.order)
    IN  /\ \A i \in DOMAIN tasks :
             tasks[i].ProjectID = tasks[call.id].ProjectID
                 => \E k \in 1..N : call.order[k] = i
        /\ \A k \in 1..N :
             /\ tasks[call.order[k]].Position[2] = 0
             /\ tasks[call.order[k]].Position[1] * N = 60 * 65536 * k

\* The rows read stand in the order of the list positions that the save of
\* the rebalancing request left.
OrderAsSaved ==
    \A k, l \in DOMAIN call.order :
        k < l => ~PosLess(call.saved[call.order[l]].Position,
                          call.saved[call.order[k]].Position)

\* C25: when no other request writes between the save of the update that
\* starts a rebalance and the last write of the rebalance, the tasks of the
\* project end at evenly spaced list positions in the order they had; a
\* create or a position update of another request that comes between the read
\* and the writes can be overwritten and can leave an order that no serial
\* execution gives (C25_Witness).
C25_SerialRebalanceHolds ==
    SerialRebalance => (EvenlySpacedAsRead /\ OrderAsSaved)

\* The two tables have their tasks in the same order of list positions.
SameOrder(tbl1, tbl2) ==
    /\ DOMAIN tbl1 = DOMAIN tbl2
    /\ \A i, j \in DOMAIN tbl1 :
         PosLess(tbl1[i].Position, tbl1[j].Position)
             <=> PosLess(tbl2[i].Position, tbl2[j].Position)

\* The rebalance is over and one other request, a position update of another
\* task, wrote between its save and its last write; the position it wrote is
\* gone, and the order of the tasks is neither the order of the rebalance
\* followed by the update nor an order of the update followed by the
\* rebalance.
C25_Witness ==
    /\ call.fn = "recalculateTaskPositions"
    /\ call.pc = "done"
    /\ call.others = 1
    /\ Updated
    /\ last.req = MoveRequest
    /\ last.id # call.id
    /\ last.id \in DOMAIN call.saved
    /\ tasks[last.id].Position # last.req.Position
    /\ LET moved == [call.saved EXCEPT
                         ![last.id].Position = last.req.Position]
           members == {i \in DOMAIN moved :
                          moved[i].ProjectID = moved[call.id].ProjectID}
       IN  /\ \A o \in Orderings(call.saved, members, "Position") :
                ~SameOrder(tasks,
                           [recalculateTaskPositions(call.saved, o) EXCEPT
                               ![last.id].Position = last.req.Position])
           /\ \A o \in Orderings(moved, members, "Position") :
                ~SameOrder(tasks, recalculateTaskPositions(moved, o))

====
